---------------------------- MODULE Spec2Model ----------------------------
(***************************************************************************)
(* A model of the session lifecycle and task dispatch core of auto_session *)
(* (src/src/auto_session/session_manager.py and session_task_manager.py).  *)
(*                                                                         *)
(* The store is the set of rows of the sessions, messages and session_tasks*)
(* tables; the queue backend is the five Redis lists (plus any other key a *)
(* caller names).  Time is an integer number of minutes.                   *)
(*                                                                         *)
(* Reading conventions:                                                    *)
(*  - a session id is the index of its row in `sessions` (ids come from    *)
(*    uuid4 and are taken to be fresh); a task id is the index of its row  *)
(*    in `tasks` (the autoincrement primary key); 0 stands for None;       *)
(*  - the dataclasses of models.py (SessionInfo, AvailabilityResult) are   *)
(*    modelled by their constructors: a call that passes a keyword the     *)
(*    class has no field for raises TypeError, and reading an attribute an *)
(*    object does not have raises AttributeError;                          *)
(*  - the store is a database server that outlives the process             *)
(*    (database.py, get_engine over a MySQL URL): a behaviour starts over  *)
(*    the rows an earlier run has left in it;                              *)
(*  - the sequential specifications model one SessionManager over one      *)
(*    store session, as the tests use it: a change made to a loaded row is *)
(*    seen by every later query of that store session.  `sessions` holds  *)
(*    the rows as that store session has them, `stored` the rows as last   *)
(*    committed: a commit makes the two equal, a rollback returns          *)
(*    `sessions` to `stored`;                                              *)
(*  - columns no decision reads (created_at, content of a stored message,  *)
(*    external_task_id) are left out of the rows.                          *)
(***************************************************************************)
EXTENDS Integers, Sequences, FiniteSets, TLC

VARIABLES
    sessions,   \* rows of table sessions; the index is the session id
    stored,     \* rows of table sessions as of the last commit
    messages,   \* rows of table messages, in insertion order
    tasks,      \* rows of table session_tasks; the index is the task id
    queues,     \* the Redis lists: key -> sequence, head (left) first
    now,        \* datetime.now(), in minutes
    ret,        \* what the last operation returned
    published,  \* history: the (level, id) pairs lpush-ed so far
    popped,     \* history: the (level, id) pairs get_next_redis_task returned
    procs,      \* the requests in flight (concurrent specifications)
    calls,      \* the number of calls made (specifications with a call budget)
    transfers   \* rows of table session_transfers

vars ==
    <<sessions, stored, messages, tasks, queues, now, ret, published, popped, procs,
      calls, transfers>>

-----------------------------------------------------------------------------
(* Bounds of the model. *)
\* rows of table sessions, and those it may hold at the start
MaxSessions == 2
MaxSeedSessions == 2
MaxTime == 1
\* rows of table session_tasks, and those it may hold at the start
MaxTasks == 2
MaxSeedTasks == 1
MaxMessages == 2
MaxPublished == 3
NumWorkers == 2
MaxConcPublished == 2
NumRequests == 2
MaxCalls == 2
\* calls in a behaviour of the admission specification
MaxAdmissionCalls == 3
\* calls in a behaviour of the hand-off specification
MaxHandoffCalls == 3
\* calls in a behaviour of the task specification
MaxTaskCalls == 2
\* calls in a behaviour of the dispatch specification
MaxDispatchCalls == 3
\* calls in a behaviour of the two-pair specification
MaxFrameCalls == 3
\* calls in a behaviour of the failure specification
MaxFaultCalls == 2
\* calls in a behaviour of the conversation specification
MaxMessageCalls == 2
\* calls in a behaviour of SpecOwnership
MaxOwnershipCalls == 2
-----------------------------------------------------------------------------
(* Enumerations and configuration. *)

\* models.py TaskType
TaskTypes ==
    {"manual_customer_service", "manual_complaint", "manual_urgent",
     "auto_bargain", "auto_follow_up"}

\* models.py SessionState
SessionStates ==
    {"pending", "active", "completed", "transferred", "paused", "cancelled", "timeout"}

\* the states _find_active_session and _complete_existing_sessions filter on
LiveStates == {"active", "transferred"}

\* the states spec.md calls terminal
TerminalStates == {"completed", "cancelled", "timeout"}

\* session_task_manager.py LEVEL_LIST, in the order the list is written
LEVEL_LIST == <<"level5", "level4", "level3", "level2", "level1">>

Levels == {LEVEL_LIST[i] : i \in DOMAIN LEVEL_LIST}

\* every Redis key a caller may name: the five levels and one key not in LEVEL_LIST
QueueKeys == Levels \cup {"3"}

Accounts == {"acc"}
ShopNames == {"ShopX"}
NoSession == 0

\* _is_robot_task: task_type.value.startswith('auto_')
IsRobotTask(t) == t \in {"auto_bargain", "auto_follow_up"}

\* models.py TASK_TYPE_PRIORITY / _get_task_priority
TaskPriority(t) ==
    CASE t = "manual_urgent" -> 1
      [] t \in {"manual_customer_service", "manual_complaint"} -> 2
      [] t = "auto_bargain" -> 3
      [] OTHER -> 4

-----------------------------------------------------------------------------
(* Queries on the sessions table. *)

LiveIds(ss, a, s) ==
    {i \in DOMAIN ss : ss[i].account = a /\ ss[i].shop = s /\ ss[i].state \in LiveStates}

\* _find_active_session: the live rows of the pair, last_activity descending,
\* first(); rows with equal last_activity come in an order the store chooses.
FindActiveSession(ss, a, s) ==
    IF LiveIds(ss, a, s) = {} THEN {NoSession}
    ELSE {i \in LiveIds(ss, a, s) :
            \A j \in LiveIds(ss, a, s) : ss[j].last_activity <= ss[i].last_activity}

\* _get_session
GetSession(ss, sid) == IF sid \in DOMAIN ss THEN sid ELSE NoSession


-----------------------------------------------------------------------------
(* Operations of SessionManager, as functions of the rows they read.  Each *)
(* returns the result of the call and the rows after its commits.          *)

\* a dataclass constructor called with the keywords kw: TypeError when a
\* keyword names no field or a field without default gets no value, otherwise
\* the object, its other fields at their defaults
DataclassInit(fields, required, defaults, kw) ==
    IF ~(DOMAIN kw \subseteq fields) \/ ~(required \subseteq DOMAIN kw)
    THEN [raised |-> "TypeError"]
    ELSE [f \in fields |-> IF f \in DOMAIN kw THEN kw[f] ELSE defaults[f]]

\* whether a constructor call raised
Raised(obj) == "raised" \in DOMAIN obj

\* models.py AvailabilityResult: available, and three fields that default to
\* None (0, "" and -1 for an id, a task type and a time); there is no field
\* error_message
AvailabilityResultFields ==
    {"available", "current_session_id", "current_session_type", "estimated_available_at"}

AvailabilityResult(kw) ==
    DataclassInit(AvailabilityResultFields, {"available"},
                  [current_session_id |-> NoSession, current_session_type |-> "",
                   estimated_available_at |-> -1], kw)

\* what a call of can_create_robot_session that ends in `return
\* AvailabilityResult(**kw)` gives its caller, with the rows ss as the call
\* leaves them and whether it has committed
GateReturn(kw, ss, commit) ==
    LET r == AvailabilityResult(kw) IN
    IF Raised(r) THEN [raised |-> r.raised, ss |-> ss, commit |-> commit]
    ELSE [raised |-> "", available |-> r.available,
          conflict |-> r.current_session_id, ss |-> ss, commit |-> commit]

\* mutant: the timeout is looked at before the TRANSFERRED state
CanCreateRobotSessionTimeoutFirst(ss, a, s, t, w, act, clock) ==
    IF s = "" THEN
        GateReturn([available |-> FALSE, error_message |-> "shop_name"], ss, FALSE)
    ELSE IF ~IsRobotTask(t) THEN
        GateReturn([available |-> FALSE, error_message |-> "task_type"], ss, FALSE)
    ELSE IF act = NoSession THEN
        GateReturn([available |-> TRUE, current_session_id |-> NoSession,
                    current_session_type |-> ""], ss, FALSE)
    ELSE IF clock - ss[act].last_activity > w THEN
        GateReturn([available |-> TRUE, current_session_id |-> NoSession,
                    current_session_type |-> "", estimated_available_at |-> clock],
                   [ss EXCEPT ![act].state = "timeout"], TRUE)
    ELSE
        GateReturn([available |-> FALSE, current_session_id |-> act,
                    current_session_type |-> ss[act].task_type,
                    error_message |-> "state"], ss, FALSE)

\* can_create_robot_session; `act` is what _find_active_session returned.
\* Only the branch that marks the session TIMEOUT commits (line 90).
CanCreateRobotSession(ss, a, s, t, w, act, clock) ==
    IF s = "" THEN
        GateReturn([available |-> FALSE, error_message |-> "shop_name"], ss, FALSE)
    ELSE IF ~IsRobotTask(t) THEN
        GateReturn([available |-> FALSE, error_message |-> "task_type"], ss, FALSE)
    ELSE IF act = NoSession THEN
        GateReturn([available |-> TRUE, current_session_id |-> NoSession,
                    current_session_type |-> ""], ss, FALSE)
    ELSE IF ss[act].state = "transferred" THEN
        GateReturn([available |-> FALSE, current_session_id |-> act,
                    current_session_type |-> ss[act].task_type,
                    error_message |-> "human"], ss, FALSE)
    ELSE IF clock - ss[act].last_activity > w THEN
        GateReturn([available |-> TRUE, current_session_id |-> NoSession,
                    current_session_type |-> "", estimated_available_at |-> clock],
                   [ss EXCEPT ![act].state = "timeout"], TRUE)
    ELSE IF ss[act].state = "active" /\ IsRobotTask(ss[act].task_type) THEN
        GateReturn([available |-> FALSE, current_session_id |-> act,
                    current_session_type |-> ss[act].task_type,
                    error_message |-> "robot"], ss, FALSE)
    ELSE
        GateReturn([available |-> FALSE, current_session_id |-> act,
                    current_session_type |-> ss[act].task_type,
                    error_message |-> "state"], ss, FALSE)

\* _complete_existing_sessions
CompleteExistingSessions(ss, a, s, clock) ==
    [i \in DOMAIN ss |->
        IF i \in LiveIds(ss, a, s)
        THEN [ss[i] EXCEPT !.state = "completed", !.last_activity = clock]
        ELSE ss[i]]

\* models.py SessionInfo: the fields of the dataclass (the shop is held in
\* shop_id; there is no field shop_name), those without a default, and the
\* defaults (None is "" for a string and -1 for a time)
SessionInfoFields ==
    {"session_id", "account_id", "shop_id", "task_type", "state", "created_by",
     "priority", "external_task_id", "message_count", "created_at", "last_activity",
     "timeout_at", "transferred_at", "transfer_reason"}

SessionInfoRequired ==
    {"session_id", "account_id", "shop_id", "task_type", "state", "created_by"}

SessionInfoDefaults ==
    [priority |-> 3, external_task_id |-> "", message_count |-> 0, created_at |-> -1,
     last_activity |-> -1, timeout_at |-> -1, transferred_at |-> -1,
     transfer_reason |-> ""]

\* mutant: the dataclass holds the shop in a field shop_name
SessionInfoWithShopName(kw) ==
    DataclassInit((SessionInfoFields \ {"shop_id"}) \cup {"shop_name"},
                  (SessionInfoRequired \ {"shop_id"}) \cup {"shop_name"},
                  SessionInfoDefaults, kw)

\* SessionInfo(**kw)
SessionInfo(kw) ==
    DataclassInit(SessionInfoFields, SessionInfoRequired, SessionInfoDefaults, kw)

\* the DBSession row create_session builds from a SessionInfo: it reads the
\* attribute shop_name of the object it is given
NewSessionRow(info, clock) ==
    IF "shop_name" \notin DOMAIN info THEN [raised |-> "AttributeError"]
    ELSE [account |-> info.account_id, shop |-> info.shop_name,
          task_type |-> info.task_type, state |-> info.state,
          created_by |-> info.created_by, priority |-> info.priority,
          message_count |-> info.message_count,
          last_activity |-> IF info.last_activity = -1 THEN clock
                            ELSE info.last_activity,
          transferred_at |-> -1]

\* create_session: session_info.shop_name is read before any row is; the new
\* session's id is the length of the rows returned
CreateSession(ss, info, clock) ==
    IF "shop_name" \notin DOMAIN info THEN
        [raised |-> "AttributeError", ss |-> ss, session_id |-> NoSession]
    ELSE
        LET done == CompleteExistingSessions(ss, info.account_id, info.shop_name, clock)
        IN  [raised |-> "", ss |-> Append(done, NewSessionRow(info, clock)),
             session_id |-> Len(done) + 1]

\* the SessionInfo(...) expression of create_robot_session, which names the
\* shop by the keyword shop_name
RobotSessionInfo(a, s, t, clock) ==
    SessionInfo([session_id |-> "uuid4", account_id |-> a, shop_name |-> s,
                 task_type |-> t, state |-> "pending", created_by |-> "robot",
                 priority |-> TaskPriority(t), external_task_id |-> "e1",
                 message_count |-> 0, created_at |-> clock, last_activity |-> clock])

\* create_robot_session after its gate call has answered g.  The gate is
\* called, and an unavailable answer turned into the
\* UNAVAILABLE result, outside the try: that result is built from
\* availability.error_message, an attribute AvailabilityResult does not have.
\* The SessionInfo is built and create_session called inside the try, whose
\* except branch returns CREATE_FAILED without a rollback.  `commit` is
\* whether the call has committed (the gate, or create_session at line 404).
CreateRobotSessionAfterGate(g, a, s, t, clock) ==
    LET failed(rows) == [raised |-> "", success |-> FALSE, session_id |-> NoSession,
                         error_code |-> "CREATE_FAILED", conflict |-> NoSession,
                         ss |-> rows, commit |-> g.commit]
    IN  IF g.raised # "" THEN [raised |-> g.raised, ss |-> g.ss, commit |-> g.commit]
        ELSE IF ~g.available THEN
            [raised |-> "AttributeError", ss |-> g.ss, commit |-> g.commit]
        ELSE
            LET info == RobotSessionInfo(a, s, t, clock) IN
            IF Raised(info) THEN failed(g.ss)
            ELSE
                LET c == CreateSession(g.ss, info, clock) IN
                IF c.raised # "" THEN failed(c.ss)
                ELSE [raised |-> "", success |-> TRUE, session_id |-> c.session_id,
                      error_code |-> "", conflict |-> NoSession, ss |-> c.ss,
                      commit |-> TRUE]

\* create_robot_session; `act` is what its gate call's _find_active_session
\* (line 140) returned
CreateRobotSession(ss, a, s, t, w, act, clock) ==
    CreateRobotSessionAfterGate(CanCreateRobotSession(ss, a, s, t, w, act, clock),
                                a, s, t, clock)

\* mutant: the row is stored and the session's count is left as it is
AddMessageToSessionNoCount(ss, ms, sid, m) ==
    IF GetSession(ss, sid) = NoSession THEN [ok |-> FALSE, ss |-> ss, ms |-> ms]
    ELSE [ok |-> TRUE,
          ss |-> [ss EXCEPT ![sid].last_activity = m.sent_at,
                            ![sid].state = IF @ = "pending" THEN "active" ELSE @],
          ms |-> Append(ms, [message_id |-> m.message_id, session_id |-> sid])]

\* mutant: the message activates the session whatever its state
AddMessageToSessionActivates(ss, ms, sid, m) ==
    IF GetSession(ss, sid) = NoSession THEN [ok |-> FALSE, ss |-> ss, ms |-> ms]
    ELSE [ok |-> TRUE,
          ss |-> [ss EXCEPT ![sid].message_count = @ + 1,
                            ![sid].last_activity = m.sent_at,
                            ![sid].state = "active"],
          ms |-> Append(ms, [message_id |-> m.message_id, session_id |-> sid])]

\* add_message_to_session
AddMessageToSession(ss, ms, sid, m) ==
    IF GetSession(ss, sid) = NoSession THEN [ok |-> FALSE, ss |-> ss, ms |-> ms]
    ELSE [ok |-> TRUE,
          ss |-> [ss EXCEPT ![sid].message_count = @ + 1,
                            ![sid].last_activity = m.sent_at,
                            ![sid].state = IF @ = "pending" THEN "active" ELSE @],
          ms |-> Append(ms, [message_id |-> m.message_id, session_id |-> sid])]

\* mutant: a switch to the robot leaves the state as it is
SwitchSessionControlOwnerOnly(ss, sid, new_owner, clock) ==
    IF GetSession(ss, sid) = NoSession THEN [ok |-> FALSE, ss |-> ss]
    ELSE [ok |-> TRUE,
          ss |-> [ss EXCEPT ![sid].created_by = new_owner,
                            ![sid].state = IF new_owner = "human" THEN "transferred"
                                           ELSE @,
                            ![sid].transferred_at = IF new_owner = "human" THEN clock
                                                    ELSE @,
                            ![sid].last_activity = clock]]

\* switch_session_control
SwitchSessionControl(ss, sid, new_owner, clock) ==
    IF GetSession(ss, sid) = NoSession THEN [ok |-> FALSE, ss |-> ss]
    ELSE [ok |-> TRUE,
          ss |-> [ss EXCEPT ![sid].created_by = new_owner,
                            ![sid].state = IF new_owner = "human" THEN "transferred"
                                           ELSE "active",
                            ![sid].transferred_at = IF new_owner = "human" THEN clock
                                                    ELSE @,
                            ![sid].last_activity = clock]]

\* the value bound to the parameter shop_name of should_create_new_session:
\* a shop name, or (as process_message_batch passes it) a list of messages
KeyOfName(s) == [kind |-> "name", name |-> s, len |-> 0]
KeyOfList(l) == [kind |-> "list", name |-> "", len |-> Len(l)]

\* Python's `not shop_name`
Falsy(key) == IF key.kind = "name" THEN key.name = "" ELSE key.len = 0

\* the default of should_create_new_session's parameter max_inactive_minutes,
\* which is the window in force when process_message_batch calls it: the
\* caller's window is passed third, where the parameter new_messages stands
DeciderDefaultWindow == 30

\* should_create_new_session; `act` is what _find_active_session returned
ShouldCreateNewSession(ss, key, w, act, clock) ==
    IF Falsy(key) THEN [create |-> TRUE, existing |-> NoSession, ss |-> ss]
    ELSE IF act = NoSession THEN [create |-> TRUE, existing |-> NoSession, ss |-> ss]
    ELSE IF clock - ss[act].last_activity > w THEN
        [create |-> TRUE, existing |-> NoSession,
         ss |-> [ss EXCEPT ![act].state = "timeout"]]
    ELSE [create |-> FALSE, existing |-> act, ss |-> ss]

-----------------------------------------------------------------------------
(* Messages and process_message_batch. *)

\* session_manager.py ACCOUNT_NICK_NAME_LIST
ACCOUNT_NICK_NAME_LIST == {"t-2217567810350-0"}

\* content.startswith('hi'), on a content given as its characters
StartsWithHi(c) == Len(c) >= 2 /\ c[1] = "h" /\ c[2] = "i"

\* the MessageData values the batches are drawn from
MessageCatalogue ==
    { [message_id |-> "m1", content |-> <<"o", "k">>, from_source |-> "shop",
       sender |-> "tb5637469_2011", sent_at |-> 0],
      [message_id |-> "m2", content |-> <<"h", "i", "!">>, from_source |-> "account",
       sender |-> "t-2217567810350-0", sent_at |-> 1],
      [message_id |-> "m3", content |-> <<"h", "e", "y">>, from_source |-> "account",
       sender |-> "t-2217567810350-0", sent_at |-> 1] }

Batches ==
    {<<>>} \cup {<<m>> : m \in MessageCatalogue}
           \cup {<<m, n>> : m \in MessageCatalogue, n \in MessageCatalogue}

\* _preprocess_messages: the messages whose id is in no stored row
PreprocessMessages(ms, msgs) ==
    SelectSeq(msgs, LAMBDA m : \A i \in DOMAIN ms : ms[i].message_id # m.message_id)

\* _check_human_intervention
CheckHumanIntervention(msgs) ==
    \E i \in DOMAIN msgs :
        /\ msgs[i].from_source = "account"
        /\ ~StartsWithHi(msgs[i].content)
        /\ msgs[i].sender \in ACCOUNT_NICK_NAME_LIST

\* `for msg in processed_messages: self.add_message_to_session(session_id, msg)`
RECURSIVE AddMessages(_, _, _, _)
AddMessages(ss, ms, sid, msgs) ==
    IF msgs = <<>> THEN [ss |-> ss, ms |-> ms]
    ELSE LET r == AddMessageToSession(ss, ms, sid, Head(msgs))
         IN  AddMessages(r.ss, r.ms, sid, Tail(msgs))

\* the SessionInfo(...) expression of process_message_batch, which names the
\* shop by the keyword shop_name
HumanSessionInfo(a, s) ==
    SessionInfo([session_id |-> "uuid4", account_id |-> a, shop_name |-> s,
                 task_type |-> "manual_urgent", state |-> "transferred",
                 created_by |-> "human", priority |-> 1, message_count |-> 0])

\* What the store answers when _find_active_session filters shop_name by a
\* non-empty list of n MessageData (the second positional argument that
\* process_message_batch passes).  A list of one value is rendered by some
\* drivers as a string no shop is named by, and refused by others; a longer
\* list is refused.
ListKeyQueryOutcomes(n) ==
    IF n = 0 THEN {"none"} ELSE IF n = 1 THEN {"none", "raise"} ELSE {"raise"}

\* process_message_batch, lines 238-276: the branch that joins `existing`.
\* Each add_message_to_session commits; last_activity is assigned after them
\* and is committed only by a switch_session_control that follows.
JoinExistingSession(base, ss, ms, processed, existing, clock) ==
    IF GetSession(ss, existing) = NoSession THEN
        [base EXCEPT !.errors = 1, !.ss = ss, !.ms = ms]
    ELSE
        LET added == AddMessages(ss, ms, existing, processed)
            ss1 == [added.ss EXCEPT ![existing].last_activity = clock]
            joined == [base EXCEPT !.active_session_id = existing, !.ms = added.ms,
                                   !.st = IF processed = <<>> THEN @ ELSE added.ss]
        IN  IF ss1[existing].state = "transferred" THEN
                [joined EXCEPT !.ss = ss1, !.notifications = 1,
                               !.operations = <<"join_human">>]
            ELSE IF CheckHumanIntervention(processed) THEN
                LET sw == SwitchSessionControl(ss1, existing, "human", clock) IN
                IF ~sw.ok THEN [joined EXCEPT !.ss = sw.ss, !.errors = 1]
                ELSE [joined EXCEPT !.ss = sw.ss, !.st = sw.ss, !.notifications = 1,
                                    !.operations = <<"transfer_to_human">>]
            ELSE
                [joined EXCEPT !.ss = ss1, !.operations = <<"continue_robot">>]

\* mutant: the result of a failed batch starts from an empty ProcessResult
BatchFailureResetsCounters(base) ==
    [base EXCEPT !.errors = 1, !.processed = 0, !.skipped = 0]

\* process_message_batch, lines 278-281: `except Exception as e:
\* result.errors = [str(e)]; return result`
BatchFailure(base) == [base EXCEPT !.errors = 1]

\* process_message_batch; st is the rows as last committed, q the store's
\* answer to the list-keyed query.  An exception raised anywhere in the body
\* (the query, the SessionInfo constructor, create_session) ends the call at
\* lines 278-281, where nothing is rolled back.
ProcessMessageBatch(ss, st, ms, msgs, a, s, w, q, clock) ==
    LET processed == PreprocessMessages(ms, msgs)
        key == KeyOfList(processed)
        base == [processed |-> Len(processed),
                 skipped |-> Len(msgs) - Len(processed),
                 active_session_id |-> NoSession, operations |-> <<>>,
                 errors |-> 0, notifications |-> 0, ss |-> ss, st |-> st,
                 ms |-> ms]
    IN  IF ~Falsy(key) /\ q = "raise" THEN BatchFailure(base)
        ELSE
            LET d == ShouldCreateNewSession(ss, key, DeciderDefaultWindow,
                                            NoSession, clock) IN
            IF d.create THEN
                LET info == HumanSessionInfo(a, s) IN
                IF Raised(info) THEN BatchFailure([base EXCEPT !.ss = d.ss])
                ELSE
                    LET c == CreateSession(d.ss, info, clock) IN
                    IF c.raised # "" THEN BatchFailure([base EXCEPT !.ss = c.ss])
                    ELSE
                        LET added == AddMessages(c.ss, ms, c.session_id, processed)
                        IN  [base EXCEPT !.active_session_id = c.session_id,
                                         !.notifications = 1,
                                         !.ss = added.ss, !.st = added.ss,
                                         !.ms = added.ms]
            ELSE JoinExistingSession(base, d.ss, ms, processed, d.existing, clock)

-----------------------------------------------------------------------------
(* Operations of SessionTaskManager. *)

\* mutant: the id is pushed at the end rpop takes from
LPushAtTail(q, x) == q \o <<x>>

\* redis lpush / rpop on a list held head first
LPush(q, x) == <<x>> \o q
RPopValue(q) == q[Len(q)]
RPopRest(q) == SubSeq(q, 1, Len(q) - 1)

\* _publish_task_to_redis: lpush(level, str(id))
PublishTaskToRedis(qs, level, id) == [qs EXCEPT ![level] = LPush(@, ToString(id))]

\* get_next_redis_task: the position in LEVEL_LIST of the first list whose
\* rpop returns a value, 0 when every rpop returns None
NextLevelIndex(qs) ==
    IF \A i \in DOMAIN LEVEL_LIST : qs[LEVEL_LIST[i]] = <<>> THEN 0
    ELSE CHOOSE i \in DOMAIN LEVEL_LIST :
            /\ qs[LEVEL_LIST[i]] # <<>>
            /\ \A j \in 1..(i - 1) : qs[LEVEL_LIST[j]] = <<>>

\* update_task_status: query.first() over the tasks of the session
TaskOfSession(ts, sid) ==
    IF \A i \in DOMAIN ts : ts[i].session_id # sid THEN 0
    ELSE CHOOSE i \in DOMAIN ts :
            /\ ts[i].session_id = sid
            /\ \A j \in 1..(i - 1) : ts[j].session_id # sid

\* update_task_status
UpdateTaskStatus(ts, sid, status, clock) ==
    LET k == TaskOfSession(ts, sid) IN
    IF k = 0 THEN [ok |-> FALSE, ts |-> ts]
    ELSE [ok |-> TRUE,
          ts |-> [ts EXCEPT ![k].status = status,
                            ![k].finished_at = IF status = 1 THEN clock ELSE @]]

\* mutant: a failed task leaves its session in the state it had
CompleteSessionTaskKeepsFailed(ss, ts, sid, success, clock) ==
    LET u == UpdateTaskStatus(ts, sid, IF success THEN 1 ELSE 2, clock) IN
    IF ~u.ok THEN [ok |-> FALSE, ss |-> ss, ts |-> ts]
    ELSE [ok |-> TRUE, ts |-> u.ts,
          ss |-> IF GetSession(ss, sid) = NoSession THEN ss
                 ELSE [ss EXCEPT ![sid].state = IF success THEN "active" ELSE @,
                                 ![sid].last_activity = clock]]

\* mutant: the session is updated whether or not a task was found
CompleteSessionTaskIgnoresMissing(ss, ts, sid, success, clock) ==
    LET u == UpdateTaskStatus(ts, sid, IF success THEN 1 ELSE 2, clock) IN
    [ok |-> u.ok, ts |-> u.ts,
     ss |-> IF GetSession(ss, sid) = NoSession THEN ss
            ELSE [ss EXCEPT ![sid].state = IF success THEN "active" ELSE "cancelled",
                            ![sid].last_activity = clock]]

\* complete_session_task
CompleteSessionTask(ss, ts, sid, success, clock) ==
    LET u == UpdateTaskStatus(ts, sid, IF success THEN 1 ELSE 2, clock) IN
    IF ~u.ok THEN [ok |-> FALSE, ss |-> ss, ts |-> ts]
    ELSE [ok |-> TRUE, ts |-> u.ts,
          ss |-> IF GetSession(ss, sid) = NoSession THEN ss
                 ELSE [ss EXCEPT ![sid].state = IF success THEN "active" ELSE "cancelled",
                                 ![sid].last_activity = clock]]

\* mutant: the call reaches the resolver, which answers a URL or None
CallExternalResolverBound(t, url) ==
    [raised |-> FALSE, send_url |-> IF t = "auto_bargain" THEN url ELSE ""]

\* get_send_info_by_redis_id's call get_send_info_by_external_task(task_type=..,
\* external_task_id=.., db_session=..): the callee's parameters are task_type,
\* task_id and db_session, so binding the keyword external_task_id raises
\* TypeError before the resolver runs, whatever URL (url, "" for None) it would
\* have answered
CallExternalResolver(t, url) == [raised |-> TRUE, send_url |-> ""]

\* get_send_info_by_redis_id: `none` is the return value None, otherwise the
\* dict returned, with its msg and send_url ("" when absent or empty); ext is
\* the external_task_id column of the task read
GetSendInfoByRedisId(ts, tid, ext, url) ==
    IF tid \notin DOMAIN ts THEN
        [none |-> FALSE, msg |-> "task_not_found", send_url |-> ""]
    ELSE IF ext = "" THEN
        [none |-> FALSE, msg |-> "task_lacks_info", send_url |-> ""]
    ELSE
        LET c == CallExternalResolver(ts[tid].task_type, url) IN
        IF c.raised THEN [none |-> TRUE, msg |-> "", send_url |-> ""]
        ELSE [none |-> FALSE, msg |-> "", send_url |-> c.send_url]

\* api.py process_message_batch: the ApiResponse built from a ProcessResult
\* that the manager returned (errors is the length of its errors list)
BatchResponse(result) == [success |-> TRUE, errors |-> result.errors]

\* api.py get_send_info_by_task_id: the ApiResponse built from the return value
SendInfoResponse(info) ==
    IF info.none THEN [success |-> FALSE, error_code |-> "TASK_NOT_FOUND"]
    ELSE [success |-> TRUE, error_code |-> ""]

\* create_session_task from the answer g of its gate call and the result r of
\* its create_robot_session call; st is the rows as last committed, redis_ok
\* is whether lpush went through.  The whole
\* body is inside `try`: an exception raised by the gate, by reading
\* availability.error_message for the UNAVAILABLE result, or by
\* create_robot_session ends the call with CREATE_FAILED after
\* self.db.rollback() (line 150), which returns the rows to those last
\* committed.  A failed result of create_robot_session is returned as it is,
\* with no rollback.  The result carries the rows as the call leaves them (ss)
\* and as committed (st).
CreateSessionTaskAfterGate(g, r, st, ts, qs, t, level, redis_ok) ==
    LET st1 == IF g.commit THEN g.ss ELSE st
        failed(code, conflict, rows, committed, trows) ==
            [success |-> FALSE, session_id |-> NoSession, error_code |-> code,
             conflict |-> conflict, ss |-> rows, st |-> committed, ts |-> trows,
             qs |-> qs]
    IN  IF g.raised # "" THEN failed("CREATE_FAILED", NoSession, st1, st1, ts)
        ELSE IF ~g.available THEN failed("CREATE_FAILED", NoSession, st1, st1, ts)
        ELSE
            LET st2 == IF r.commit THEN r.ss ELSE st1
            IN  IF r.raised # "" THEN failed("CREATE_FAILED", NoSession, st2, st2, ts)
                ELSE IF ~r.success THEN failed(r.error_code, r.conflict, r.ss, st2, ts)
                ELSE
                    LET ts1 == Append(ts, [session_id |-> r.session_id, status |-> 0,
                                           task_type |-> t, finished_at |-> -1])
                    IN  IF ~redis_ok THEN
                            failed("REDIS_PUBLISH_FAILED", NoSession, r.ss, r.ss, ts1)
                        ELSE
                            [success |-> TRUE, session_id |-> r.session_id,
                             error_code |-> "", conflict |-> NoSession, ss |-> r.ss,
                             st |-> r.ss, ts |-> ts1,
                             qs |-> PublishTaskToRedis(qs, level, Len(ts1))]

\* create_session_task: its gate call (line 91), its create_robot_session
\* call (line 107) on the rows the gate left, and the steps after them; act1
\* and act2 are what _find_active_session returned to the one and to the other
CreateSessionTask(ss, st, ts, qs, t, a, s, level, w, act1, act2, redis_ok, clock) ==
    CreateSessionTaskAfterGate(
        CanCreateRobotSession(ss, a, s, t, w, act1, clock),
        CreateRobotSession(CanCreateRobotSession(ss, a, s, t, w, act1, clock).ss,
                           a, s, t, w, act2, clock),
        st, ts, qs, t, level, redis_ok)

-----------------------------------------------------------------------------
(* Inputs. *)

\* max_inactive_minutes: an empty window, and the default of create_session_task
Windows == {0, 120}

ShopInputs == ShopNames \cup {""}
TaskTypeInputs == {"auto_bargain", "manual_urgent"}
\* the task types automation tasks are requested with: both robot types and a
\* manual one
TaskRequestTypes == {"auto_bargain", "auto_follow_up", "manual_urgent"}
\* the session ids the operations are called with: the ids of a full table,
\* the last of which no row has in a table that holds fewer rows
SessionIdInputs == 1..MaxSessions
\* two shops of one account, for the operations whose effect is per pair
FrameShops == {"ShopX", "ShopY"}
\* redis task ids asked for: the ids of stored tasks and one beyond them
TaskIdInputs == 1..(MaxTasks + 1)
\* the external_task_id column of a task: empty or not
ExternalTaskIds == {"", "e1"}
\* what the marketplace resolver would answer: no URL, or one
ResolverAnswers == {"", "url"}
LevelInputs == {"level1", "level3", "3"}

\* the SessionInfo values create_session is called with directly, built by
\* the constructor as the tests build them (shop_id=...): an ACTIVE robot
\* session with last_activity la (-1: left out), and a TRANSFERRED human one
SessionInfos(a, s, la) ==
    { SessionInfo([session_id |-> "uuid4", account_id |-> a, shop_id |-> s,
                   task_type |-> "auto_bargain", state |-> "active",
                   created_by |-> "robot", priority |-> 3, last_activity |-> la]),
      SessionInfo([session_id |-> "uuid4", account_id |-> a, shop_id |-> s,
                   task_type |-> "manual_urgent", state |-> "transferred",
                   created_by |-> "human", priority |-> 1]) }

-----------------------------------------------------------------------------
(* The state after construction, and the operations as actions: one call   *)
(* of a public method, run to its end, is one step.                        *)

\* The tables outlive the process that serves them: when the managers are
\* constructed the store holds the rows written before.  The rows a store
\* starts with are drawn from these: sessions of one account, untouched since
\* time 0 and without messages, of the kinds the two creation paths are written
\* to produce (a robot session waiting for its first message, one in progress,
\* one completed, a conversation opened for a human).
SeedKinds ==
    { [state |-> "pending", created_by |-> "robot", task_type |-> "auto_bargain"],
      [state |-> "active", created_by |-> "robot", task_type |-> "auto_bargain"],
      [state |-> "completed", created_by |-> "robot", task_type |-> "auto_bargain"],
      [state |-> "transferred", created_by |-> "human", task_type |-> "manual_urgent"] }

SeedRows(shops) ==
    { [account |-> a, shop |-> s, task_type |-> k.task_type, state |-> k.state,
       created_by |-> k.created_by, priority |-> TaskPriority(k.task_type),
       message_count |-> 0, last_activity |-> 0, transferred_at |-> -1] :
      a \in Accounts, s \in shops, k \in SeedKinds }

\* at most one live session for each (account, shop) pair
AtMostOneLive(ss) ==
    \A i, j \in DOMAIN ss :
        (i # j /\ ss[i].state \in LiveStates /\ ss[j].state \in LiveStates)
            => (ss[i].account # ss[j].account \/ ss[i].shop # ss[j].shop)

\* the place of a row's state in the order the rows of a starting table are
\* listed in
SeedRank(row) ==
    CASE row.state = "pending" -> 1 [] row.state = "active" -> 2
      [] row.state = "completed" -> 3 [] OTHER -> 4

\* the session tables a behaviour may start from.  A session id is a uuid and
\* no query orders by it, so of the tables that differ only in which row has
\* which id one is taken: the one with its rows in the order of SeedRank.
SeedSessions(shops) ==
    {ss \in UNION {[1..n -> SeedRows(shops)] : n \in 0..MaxSeedSessions} :
        /\ AtMostOneLive(ss)
        /\ \A i, j \in DOMAIN ss : i < j => SeedRank(ss[i]) <= SeedRank(ss[j])}

\* the task tables that go with ss: not-started tasks of robot sessions, one
\* for a session at most, in the order of their sessions
SeedTasks(ss) ==
    {ts \in UNION {[1..n -> {[session_id |-> i, status |-> 0,
                              task_type |-> ss[i].task_type, finished_at |-> -1] :
                             i \in {j \in DOMAIN ss : ss[j].created_by = "robot"}}] :
                   n \in 0..MaxSeedTasks} :
        \A i, j \in DOMAIN ts : i < j => ts[i].session_id < ts[j].session_id}

\* the state after construction over a store that holds the rows ss and ts
InitStore(ss, ts) ==
    /\ sessions = ss
    /\ stored = ss
    /\ messages = <<>>
    /\ tasks = ts
    /\ queues = [k \in QueueKeys |-> <<>>]
    /\ now = 0
    /\ ret = [op |-> "init"]
    /\ published = <<>>
    /\ popped = <<>>
    /\ procs = <<>>
    /\ calls = 0
    /\ transfers = <<>>

Init == \E ss \in SeedSessions(ShopNames) : \E ts \in SeedTasks(ss) : InitStore(ss, ts)

\* the state after construction over an empty store
InitEmpty == InitStore(<<>>, <<>>)

\* the clock advances
Tick ==
    /\ now < MaxTime
    /\ now' = now + 1
    /\ UNCHANGED <<sessions, stored, messages, tasks, queues, ret, published, popped,
                   procs>>

\* what a caller sees of a gate call: the exception, or the result
GateOutcome(g) ==
    IF g.raised # "" THEN [raised |-> g.raised]
    ELSE [raised |-> "", available |-> g.available, conflict |-> g.conflict]

can_create_robot_session(a, s, t, w) ==
    \E act \in FindActiveSession(sessions, a, s) :
        LET g == CanCreateRobotSession(sessions, a, s, t, w, act, now) IN
        /\ sessions' = g.ss
        /\ stored' = IF g.commit THEN g.ss ELSE stored
        /\ ret' = [op |-> "can_create_robot_session", account |-> a, shop |-> s,
                   task_type |-> t, out |-> GateOutcome(g)]
        /\ UNCHANGED <<messages, tasks, queues, now, published, popped, procs>>

\* what a caller sees of a create_robot_session call
CreationOutcome(r) ==
    IF r.raised # "" THEN [raised |-> r.raised]
    ELSE [raised |-> "", success |-> r.success, session_id |-> r.session_id,
          error_code |-> r.error_code, conflict |-> r.conflict]

create_robot_session(a, s, t, w) ==
    \E act \in FindActiveSession(sessions, a, s) :
        LET r == CreateRobotSession(sessions, a, s, t, w, act, now) IN
        /\ Len(r.ss) <= MaxSessions
        /\ sessions' = r.ss
        /\ stored' = IF r.commit THEN r.ss ELSE stored
        /\ ret' = [op |-> "create_robot_session", account |-> a, shop |-> s,
                   task_type |-> t, out |-> CreationOutcome(r)]
        /\ UNCHANGED <<messages, tasks, queues, now, published, popped, procs>>

\* create_session called with a SessionInfo that its constructor built
create_session(info) ==
    /\ ~Raised(info)
    /\ LET c == CreateSession(sessions, info, now) IN
       /\ Len(c.ss) <= MaxSessions
       /\ sessions' = c.ss
       /\ stored' = IF c.raised = "" THEN c.ss ELSE stored
       /\ ret' = [op |-> "create_session", account |-> info.account_id,
                  state |-> info.state, raised |-> c.raised,
                  session_id |-> c.session_id]
    /\ UNCHANGED <<messages, tasks, queues, now, published, popped, procs>>

\* should_create_new_session called on its own: the TIMEOUT it assigns (line
\* 370) is not committed
should_create_new_session(a, s, w) ==
    \E act \in FindActiveSession(sessions, a, s) :
        LET d == ShouldCreateNewSession(sessions, KeyOfName(s), w, act, now) IN
        /\ sessions' = d.ss
        /\ UNCHANGED stored
        /\ ret' = [op |-> "should_create_new_session", account |-> a, shop |-> s,
                   create |-> d.create, existing |-> d.existing]
        /\ UNCHANGED <<messages, tasks, queues, now, published, popped, procs>>

add_message_to_session(sid, m) ==
    LET r == AddMessageToSession(sessions, messages, sid, m) IN
    /\ Len(r.ms) <= MaxMessages
    /\ sessions' = r.ss
    /\ stored' = IF r.ok THEN r.ss ELSE stored
    /\ messages' = r.ms
    /\ ret' = [op |-> "add_message_to_session", session_id |-> sid, ok |-> r.ok]
    /\ UNCHANGED <<tasks, queues, now, published, popped, procs>>

switch_session_control(sid, new_owner) ==
    LET r == SwitchSessionControl(sessions, sid, new_owner, now) IN
    /\ sessions' = r.ss
    /\ stored' = IF r.ok THEN r.ss ELSE stored
    /\ ret' = [op |-> "switch_session_control", session_id |-> sid,
               new_owner |-> new_owner, ok |-> r.ok]
    /\ UNCHANGED <<messages, tasks, queues, now, published, popped, procs>>

process_message_batch(msgs, a, s, w) ==
    \E q \in ListKeyQueryOutcomes(Len(PreprocessMessages(messages, msgs))) :
        LET r == ProcessMessageBatch(sessions, stored, messages, msgs, a, s, w, q,
                                     now) IN
        /\ Len(r.ss) <= MaxSessions
        /\ Len(r.ms) <= MaxMessages
        /\ sessions' = r.ss
        /\ stored' = r.st
        /\ messages' = r.ms
        /\ ret' = [op |-> "process_message_batch", account |-> a, shop |-> s,
                   message_ids |-> [i \in DOMAIN msgs |-> msgs[i].message_id],
                   processed |-> r.processed, skipped |-> r.skipped,
                   active_session_id |-> r.active_session_id,
                   operations |-> r.operations, errors |-> r.errors,
                   notifications |-> r.notifications]
        /\ UNCHANGED <<tasks, queues, now, published, popped, procs>>

create_session_task(t, a, s, level, w) ==
    \E act1 \in FindActiveSession(sessions, a, s), redis_ok \in BOOLEAN :
        \E act2 \in FindActiveSession(
                CanCreateRobotSession(sessions, a, s, t, w, act1, now).ss, a, s) :
            LET r == CreateSessionTask(sessions, stored, tasks, queues, t, a, s,
                                       level, w, act1, act2, redis_ok, now)
            IN  /\ Len(r.ss) <= MaxSessions
                /\ Len(r.ts) <= MaxTasks
                /\ sessions' = r.ss
                /\ stored' = r.st
                /\ tasks' = r.ts
                /\ queues' = r.qs
                /\ published' = IF r.success
                                THEN Append(published, [level |-> level, id |-> Len(r.ts)])
                                ELSE published
                /\ ret' = [op |-> "create_session_task", account |-> a, shop |-> s,
                           success |-> r.success, session_id |-> r.session_id,
                           error_code |-> r.error_code, conflict |-> r.conflict]
                /\ UNCHANGED <<messages, now, popped, procs>>

\* update_task_status: its commit (line 194) also commits what the store
\* session holds of the sessions
update_task_status(sid, status) ==
    LET r == UpdateTaskStatus(tasks, sid, status, now) IN
    /\ tasks' = r.ts
    /\ stored' = IF r.ok THEN sessions ELSE stored
    /\ ret' = [op |-> "update_task_status", session_id |-> sid, ok |-> r.ok]
    /\ UNCHANGED <<sessions, messages, queues, now, published, popped, procs>>

complete_session_task(sid, success) ==
    LET r == CompleteSessionTask(sessions, tasks, sid, success, now) IN
    /\ sessions' = r.ss
    /\ stored' = IF r.ok THEN r.ss ELSE stored
    /\ tasks' = r.ts
    /\ ret' = [op |-> "complete_session_task", session_id |-> sid,
               success |-> success, ok |-> r.ok]
    /\ UNCHANGED <<messages, queues, now, published, popped, procs>>

\* GET /api/tasks/{task_id}/send_info: get_send_info_by_redis_id and the
\* response built from it; ext is the external_task_id of the task read (a
\* column the task rows here do not carry), url the resolver's answer
get_send_info_by_task_id(tid, ext, url) ==
    LET info == GetSendInfoByRedisId(tasks, tid, ext, url) IN
    /\ ret' = [op |-> "get_send_info_by_task_id", task_id |-> tid,
               stored |-> tid \in DOMAIN tasks, external_task_id |-> ext,
               resolver_url |-> url, none |-> info.none, msg |-> info.msg,
               send_url |-> info.send_url,
               success |-> SendInfoResponse(info).success,
               error_code |-> SendInfoResponse(info).error_code]
    /\ UNCHANGED <<sessions, stored, messages, tasks, queues, now, published, popped, procs>>

\* get_next_redis_task with the Redis client answering
get_next_redis_task ==
    LET i == NextLevelIndex(queues) IN
    IF i = 0 THEN
        /\ ret' = [op |-> "get_next_redis_task", task_id |-> "", level |-> ""]
        /\ UNCHANGED <<sessions, stored, messages, tasks, queues, now, published, popped,
                       procs>>
    ELSE
        LET level == LEVEL_LIST[i] IN
        /\ queues' = [queues EXCEPT ![level] = RPopRest(@)]
        /\ popped' = Append(popped, [level |-> level, id |-> RPopValue(queues[level])])
        /\ ret' = [op |-> "get_next_redis_task", task_id |-> RPopValue(queues[level]),
                   level |-> level]
        /\ UNCHANGED <<sessions, stored, messages, tasks, now, published, procs>>

-----------------------------------------------------------------------------
(* Session creation and the gate alone. *)

NextCreateGate ==
    /\ UNCHANGED transfers
    /\ UNCHANGED calls
    /\ \/ Tick
       \/ \E a \in Accounts, s \in ShopNames, la \in {-1, 0} :
             \E info \in SessionInfos(a, s, la) : create_session(info)
       \/ \E a \in Accounts, s \in ShopInputs, t \in TaskTypeInputs, w \in Windows :
             create_robot_session(a, s, t, w)
       \/ \E a \in Accounts, s \in ShopInputs, t \in TaskTypeInputs, w \in Windows :
             can_create_robot_session(a, s, t, w)

SpecCreateGate == Init /\ [][NextCreateGate]_vars

-----------------------------------------------------------------------------
(* Every operation, one call at a time, MaxCalls calls to a behaviour; the  *)
(* clock advances between them.                                            *)

\* batches of at most one message
ShortBatches == {b \in Batches : Len(b) <= 1}

Next ==
    /\ UNCHANGED transfers
    /\ \/ Tick /\ UNCHANGED calls
       \/ /\ calls < MaxCalls
          /\ calls' = calls + 1
          /\ \/ \E a \in Accounts, s \in ShopInputs, t \in TaskTypeInputs, w \in Windows :
                   can_create_robot_session(a, s, t, w)
             \/ \E a \in Accounts, s \in ShopInputs, t \in TaskTypeInputs, w \in Windows :
                   create_robot_session(a, s, t, w)
             \/ \E a \in Accounts, s \in ShopNames, la \in {-1, 0} :
                   \E info \in SessionInfos(a, s, la) : create_session(info)
             \/ \E a \in Accounts, s \in ShopInputs, w \in Windows :
                   should_create_new_session(a, s, w)
             \/ \E sid \in SessionIdInputs, m \in MessageCatalogue :
                   add_message_to_session(sid, m)
             \/ \E sid \in SessionIdInputs, new_owner \in {"human", "robot"} :
                   switch_session_control(sid, new_owner)
             \/ \E msgs \in ShortBatches, a \in Accounts, s \in ShopInputs, w \in Windows :
                   process_message_batch(msgs, a, s, w)
             \/ \E t \in TaskTypeInputs, a \in Accounts, s \in ShopInputs,
                   level \in LevelInputs, w \in Windows :
                   create_session_task(t, a, s, level, w)
             \/ \E sid \in SessionIdInputs, status \in {0, 1, 2} :
                   update_task_status(sid, status)
             \/ \E sid \in SessionIdInputs, success \in BOOLEAN :
                   complete_session_task(sid, success)
             \/ get_next_redis_task

Spec == Init /\ [][Next]_vars

-----------------------------------------------------------------------------
(* The operations open to callers of the API, one call at a time, MaxCalls   *)
(* calls to a behaviour; the clock advances between them.                   *)

NextPublic ==
    /\ UNCHANGED transfers
    /\ \/ Tick /\ UNCHANGED calls
       \/ /\ calls < MaxCalls
          /\ calls' = calls + 1
          /\ \/ \E t \in TaskTypeInputs, a \in Accounts, s \in ShopInputs,
                   level \in LevelInputs, w \in Windows :
                   create_session_task(t, a, s, level, w)
             \/ \E msgs \in ShortBatches, a \in Accounts, s \in ShopInputs, w \in Windows :
                   process_message_batch(msgs, a, s, w)
             \/ \E sid \in SessionIdInputs, m \in MessageCatalogue :
                   add_message_to_session(sid, m)
             \/ \E sid \in SessionIdInputs, new_owner \in {"human", "robot"} :
                   switch_session_control(sid, new_owner)
             \/ \E sid \in SessionIdInputs, success \in BOOLEAN :
                   complete_session_task(sid, success)
             \/ \E a \in Accounts, s \in ShopInputs, t \in TaskTypeInputs, w \in Windows :
                   can_create_robot_session(a, s, t, w)
             \/ \E a \in Accounts, s \in ShopInputs, w \in Windows :
                   should_create_new_session(a, s, w)

SpecPublic == Init /\ [][NextPublic]_vars

-----------------------------------------------------------------------------
(* Message batches alone, MaxCalls steps to a behaviour. *)

NextBatch ==
    /\ UNCHANGED transfers
    /\ calls < MaxCalls
    /\ calls' = calls + 1
    /\ \/ Tick
       \/ \E msgs \in Batches, a \in Accounts, s \in ShopInputs, w \in Windows :
             process_message_batch(msgs, a, s, w)

SpecBatch == Init /\ [][NextBatch]_vars

-----------------------------------------------------------------------------
(* Message ingestion: create_session, the decider and the batches,         *)
(* MaxCalls steps to a behaviour.                                          *)

NextIngest ==
    /\ UNCHANGED transfers
    /\ calls < MaxCalls
    /\ calls' = calls + 1
    /\ \/ Tick
       \/ \E a \in Accounts, s \in ShopNames, la \in {-1, 0} :
             \E info \in SessionInfos(a, s, la) : create_session(info)
       \/ \E a \in Accounts, s \in ShopInputs, w \in Windows :
             should_create_new_session(a, s, w)
       \/ \E msgs \in Batches, a \in Accounts, s \in ShopInputs, w \in Windows :
             process_message_batch(msgs, a, s, w)

SpecIngest == Init /\ [][NextIngest]_vars

-----------------------------------------------------------------------------
(* Hand-off: create_session, and sessions handed over by                   *)
(* switch_session_control.                                                 *)

NextHandoff ==
    /\ UNCHANGED transfers
    /\ calls < MaxHandoffCalls
    /\ calls' = calls + 1
    /\ \/ Tick
       \/ \E a \in Accounts, s \in ShopNames, la \in {-1, 0} :
             \E info \in SessionInfos(a, s, la) : create_session(info)
       \/ \E sid \in SessionIdInputs, new_owner \in {"human", "robot"} :
             switch_session_control(sid, new_owner)

SpecHandoff == Init /\ [][NextHandoff]_vars

-----------------------------------------------------------------------------
(* Admission of automation tasks: the gate, the creation of robot sessions *)
(* and of their tasks, and create_session.                                 *)

NextAdmission ==
    /\ UNCHANGED transfers
    /\ calls < MaxAdmissionCalls
    /\ calls' = calls + 1
    /\ \/ Tick
       \/ \E a \in Accounts, s \in ShopNames, la \in {-1, 0} :
             \E info \in SessionInfos(a, s, la) : create_session(info)
       \/ \E a \in Accounts, s \in ShopInputs, t \in TaskRequestTypes, w \in Windows :
             can_create_robot_session(a, s, t, w)
       \/ \E a \in Accounts, s \in ShopInputs, t \in TaskRequestTypes, w \in Windows :
             create_robot_session(a, s, t, w)
       \/ \E t \in TaskRequestTypes, a \in Accounts, s \in ShopInputs,
             level \in LevelInputs, w \in Windows :
             create_session_task(t, a, s, level, w)

SpecAdmission == Init /\ [][NextAdmission]_vars

-----------------------------------------------------------------------------
(* The life of a task and of its session: create_session_task and the     *)
(* operations that target one session by its id.                           *)

NextTasks ==
    /\ UNCHANGED transfers
    /\ calls < MaxTaskCalls
    /\ calls' = calls + 1
    /\ \/ Tick
       \/ \E a \in Accounts, s \in ShopNames, w \in Windows :
             create_session_task("auto_bargain", a, s, "level3", w)
       \/ \E sid \in SessionIdInputs, m \in MessageCatalogue :
             add_message_to_session(sid, m)
       \/ \E sid \in SessionIdInputs, new_owner \in {"human", "robot"} :
             switch_session_control(sid, new_owner)
       \/ \E sid \in SessionIdInputs, status \in {0, 1, 2} :
             update_task_status(sid, status)
       \/ \E sid \in SessionIdInputs, success \in BOOLEAN :
             complete_session_task(sid, success)

SpecTasks == Init /\ [][NextTasks]_vars

-----------------------------------------------------------------------------
(* Dispatch: tasks are requested, taken from the queues, resolved to their *)
(* dispatch info and completed, MaxDispatchCalls steps to a behaviour.     *)

NextDispatch ==
    /\ UNCHANGED transfers
    /\ calls < MaxDispatchCalls
    /\ calls' = calls + 1
    /\ \/ Tick
       \/ \E a \in Accounts, s \in ShopNames, w \in Windows :
             create_session_task("auto_bargain", a, s, "level3", w)
       \/ get_next_redis_task
       \/ \E tid \in TaskIdInputs, ext \in ExternalTaskIds, url \in ResolverAnswers :
             get_send_info_by_task_id(tid, ext, url)
       \/ \E sid \in SessionIdInputs, success \in BOOLEAN :
             complete_session_task(sid, success)

SpecDispatch == Init /\ [][NextDispatch]_vars

-----------------------------------------------------------------------------
(* Two shops of one account: create_session and create_robot_session for   *)
(* either shop, MaxFrameCalls steps to a behaviour.                        *)

NextFrame ==
    /\ UNCHANGED transfers
    /\ calls < MaxFrameCalls
    /\ calls' = calls + 1
    /\ \/ Tick
       \/ \E a \in Accounts, s \in FrameShops, la \in {-1, 0} :
             \E info \in SessionInfos(a, s, la) : create_session(info)
       \/ \E a \in Accounts, s \in FrameShops, w \in Windows :
             create_robot_session(a, s, "auto_bargain", w)

SpecFrame == Init /\ [][NextFrame]_vars

-----------------------------------------------------------------------------
(* Failures: the batches, and messages added to a session, MaxFaultCalls   *)
(* steps to a behaviour.                                                   *)

NextFaults ==
    /\ UNCHANGED transfers
    /\ calls < MaxFaultCalls
    /\ calls' = calls + 1
    /\ \/ Tick
       \/ \E msgs \in Batches, a \in Accounts, s \in ShopNames :
             process_message_batch(msgs, a, s, DeciderDefaultWindow)
       \/ \E sid \in 1..MaxSessions, m \in MessageCatalogue :
             add_message_to_session(sid, m)

SpecFaults == Init /\ [][NextFaults]_vars

-----------------------------------------------------------------------------
(* Conversations: create_session_task, the batches, and the operations on  *)
(* one session, MaxMessageCalls steps to a behaviour.                      *)

NextMessages ==
    /\ UNCHANGED transfers
    /\ calls < MaxMessageCalls
    /\ calls' = calls + 1
    /\ \/ Tick
       \/ \E a \in Accounts, s \in ShopNames, w \in Windows :
             create_session_task("auto_bargain", a, s, "level3", w)
       \/ \E msgs \in ShortBatches, a \in Accounts, s \in ShopNames, w \in Windows :
             process_message_batch(msgs, a, s, w)
       \/ \E sid \in SessionIdInputs, m \in MessageCatalogue :
             add_message_to_session(sid, m)
       \/ \E sid \in SessionIdInputs, new_owner \in {"human", "robot"} :
             switch_session_control(sid, new_owner)
       \/ \E sid \in SessionIdInputs, success \in BOOLEAN :
             complete_session_task(sid, success)

SpecMessages == Init /\ [][NextMessages]_vars

-----------------------------------------------------------------------------
(* Robot sessions requested while people write to the same pair: the robot  *)
(* entry points, the message batches and the messages added to a session,   *)
(* MaxOwnershipCalls steps to a behaviour.                                   *)

NextOwnership ==
    /\ UNCHANGED transfers
    /\ calls < MaxOwnershipCalls
    /\ calls' = calls + 1
    /\ \/ Tick
       \/ \E a \in Accounts, s \in ShopNames, w \in Windows :
             create_robot_session(a, s, "auto_bargain", w)
       \/ \E a \in Accounts, s \in ShopNames, w \in Windows :
             create_session_task("auto_bargain", a, s, "level3", w)
       \/ \E msgs \in ShortBatches, a \in Accounts, s \in ShopNames, w \in Windows :
             process_message_batch(msgs, a, s, w)
       \/ \E sid \in 1..MaxSessions, m \in MessageCatalogue :
             add_message_to_session(sid, m)

SpecOwnership == Init /\ [][NextOwnership]_vars

-----------------------------------------------------------------------------
(* The queue protocol alone: ids are pushed by _publish_task_to_redis and  *)
(* taken by get_next_redis_task, one call at a time.                       *)

\* _publish_task_to_redis(level, id) for the next fresh id
publish_task_to_redis(level) ==
    /\ Len(published) < MaxPublished
    /\ queues' = PublishTaskToRedis(queues, level, Len(published) + 1)
    /\ published' = Append(published, [level |-> level, id |-> Len(published) + 1])
    /\ ret' = [op |-> "publish_task_to_redis", ok |-> TRUE]
    /\ UNCHANGED <<sessions, stored, messages, tasks, now, popped, procs>>

NextQueue ==
    /\ UNCHANGED transfers
    /\ UNCHANGED calls
    /\ \/ \E level \in QueueKeys : publish_task_to_redis(level)
       \/ get_next_redis_task

SpecQueue == InitEmpty /\ [][NextQueue]_vars

-----------------------------------------------------------------------------
(* The queue protocol with concurrent workers: every Redis command (one    *)
(* lpush, one rpop) is atomic, and a get_next_redis_task call is the       *)
(* sequence of its rpop commands.                                          *)

Workers == 1..NumWorkers

\* pos: the position in LEVEL_LIST of the worker's next rpop (0: not in a call)
InitQueueConc ==
    /\ sessions = <<>>
    /\ stored = <<>>
    /\ messages = <<>>
    /\ tasks = <<>>
    /\ queues = [k \in QueueKeys |-> <<>>]
    /\ now = 0
    /\ ret = [op |-> "init"]
    /\ published = <<>>
    /\ popped = <<>>
    /\ procs = [w \in Workers |-> [pos |-> 0]]
    /\ calls = 0
    /\ transfers = <<>>

get_next_redis_task_begin(w) ==
    /\ procs[w].pos = 0
    /\ procs' = [procs EXCEPT ![w].pos = 1]
    /\ UNCHANGED <<sessions, stored, messages, tasks, queues, now, ret, published, popped>>

\* one iteration of `for level in LEVEL_LIST: task_id = rpop(level)`
get_next_redis_task_rpop(w) ==
    /\ procs[w].pos # 0
    /\ LET level == LEVEL_LIST[procs[w].pos] IN
       IF queues[level] # <<>> THEN
           /\ queues' = [queues EXCEPT ![level] = RPopRest(@)]
           /\ popped' = Append(popped, [level |-> level, id |-> RPopValue(queues[level])])
           /\ ret' = [op |-> "get_next_redis_task", task_id |-> RPopValue(queues[level]),
                      level |-> level, worker |-> w]
           /\ procs' = [procs EXCEPT ![w].pos = 0]
       ELSE IF procs[w].pos < Len(LEVEL_LIST) THEN
           /\ procs' = [procs EXCEPT ![w].pos = @ + 1]
           /\ UNCHANGED <<queues, popped, ret>>
       ELSE
           /\ procs' = [procs EXCEPT ![w].pos = 0]
           /\ ret' = [op |-> "get_next_redis_task", task_id |-> "", level |-> "",
                      worker |-> w]
           /\ UNCHANGED <<queues, popped>>
    /\ UNCHANGED <<sessions, stored, messages, tasks, now, published>>

NextQueueConc ==
    /\ UNCHANGED transfers
    /\ UNCHANGED calls
    /\ \/ /\ Len(published) < MaxConcPublished
          /\ \E level \in {"level5", "level3", "level1"} : publish_task_to_redis(level)
       \/ \E w \in Workers : get_next_redis_task_begin(w)
       \/ \E w \in Workers : get_next_redis_task_rpop(w)

SpecQueueConc == InitQueueConc /\ [][NextQueueConc]_vars

-----------------------------------------------------------------------------
(* Requests for one (account, shop) pair running at the same time.  Each   *)
(* request has its own database session (api.py get_db) on the MySQL store *)
(* (database.py create_database_url), whose transactions read at           *)
(* REPEATABLE READ: every query of a transaction answers from the rows as  *)
(* committed when the transaction's first query ran, and a COMMIT ends the *)
(* transaction.  A request commits what it writes, so `stored` follows     *)
(* `sessions`.  A step is one round trip to the store: a query, with the   *)
(* datetime.now() read next to it, or the UPDATE and COMMIT that follow a  *)
(* decision taken on the row the query returned.  An UPDATE carries the    *)
(* columns whose assigned value differs from the value the request read.   *)

Requests == 1..NumRequests

ConcAccount == "acc"
ConcShop == "ShopX"
ConcWindow == 120

\* the batches the concurrent requests carry
ConcBatches == {b \in Batches : b = <<>> \/ (Len(b) = 1 /\ b[1].message_id = "m1")}

\* the task row a request holds: its place in the table (0 for none) and the
\* task_status and task_finished_at read
NoTaskRow == [k |-> 0, status |-> 0, finished_at |-> -1]

\* a request: txn is whether its transaction has read, snap the session rows
\* that transaction reads, seen the row its last query returned, clock the
\* datetime.now() read after that query
IdleRequest ==
    [kind |-> "none", pc |-> "idle", msgs |-> <<>>, processed |-> <<>>,
     session_id |-> NoSession, success |-> FALSE, error_code |-> "",
     window |-> 0, txn |-> FALSE, snap |-> <<>>, seen |-> NoSession, clock |-> 0,
     task |-> NoTaskRow, outcome |-> FALSE]

\* the requests arrive at a store that holds the rows ss and ts
InitConc ==
    \E ss \in SeedSessions({ConcShop}) : \E ts \in SeedTasks(ss) :
        /\ sessions = ss
        /\ stored = ss
        /\ messages = <<>>
        /\ tasks = ts
        /\ queues = [k \in QueueKeys |-> <<>>]
        /\ now = 0
        /\ ret = [op |-> "init"]
        /\ published = <<>>
        /\ popped = <<>>
        /\ procs = [r \in Requests |-> IdleRequest]
        /\ calls = 0
        /\ transfers = <<>>

\* the rows a query of request q reads: those of its transaction, or, the
\* query being the transaction's first, the rows committed now
SnapshotRows(q, ss) == IF q.txn THEN q.snap ELSE ss

\* the UPDATE a gate call that committed has sent: the state of the row it
\* read, and no other column
GateWrite(ss, g, act) ==
    IF g.commit THEN [ss EXCEPT ![act].state = "timeout"] ELSE ss

\* a request arrives: POST create_session_task with max_inactive_minutes w.
\* ensure_account_exists (api.py 109) sends the first query of the request's
\* transaction.
create_session_task_begin(r, w) ==
    /\ procs[r].pc = "idle"
    /\ procs' = [procs EXCEPT ![r].kind = "task", ![r].pc = "gate_select",
                              ![r].window = w, ![r].txn = TRUE,
                              ![r].snap = sessions]
    /\ UNCHANGED <<sessions, messages, tasks, queues, now, ret, published, popped>>

\* a request arrives: POST process_message_batch.  No step of the request
\* reads a session row, and the message rows do not change while it runs.
process_message_batch_begin(r, msgs) ==
    /\ procs[r].pc = "idle"
    /\ procs' = [procs EXCEPT ![r].kind = "batch", ![r].pc = "preprocess",
                              ![r].msgs = msgs]
    /\ UNCHANGED <<sessions, messages, tasks, queues, now, ret, published, popped>>

\* a request arrives: POST complete_session_task for session sid
complete_session_task_begin(r, sid, success) ==
    /\ procs[r].pc = "idle"
    /\ procs' = [procs EXCEPT ![r].kind = "complete", ![r].pc = "task_select",
                              ![r].session_id = sid, ![r].outcome = success]
    /\ UNCHANGED <<sessions, messages, tasks, queues, now, ret, published, popped>>

\* create_session_task step 1: the query of its can_create_robot_session call
\* (_find_active_session, line 61), answered from the rows of the request's
\* transaction, and the datetime.now() of line 85
create_session_task_gate_select(r) ==
    /\ procs[r].pc = "gate_select"
    /\ LET rows == SnapshotRows(procs[r], sessions) IN
       \E act \in FindActiveSession(rows, ConcAccount, ConcShop) :
          procs' = [procs EXCEPT ![r].pc = "gate", ![r].txn = TRUE,
                                 ![r].snap = rows, ![r].seen = act,
                                 ![r].clock = now]
    /\ UNCHANGED <<sessions, messages, tasks, queues, now, ret, published, popped>>

\* create_session_task step 2: can_create_robot_session decides on the row it
\* read and, where it marks it TIMEOUT, sends the UPDATE and the COMMIT (lines
\* 71-97), which ends the transaction; an exception ends the request with
\* CREATE_FAILED
create_session_task_gate(r) ==
    /\ procs[r].pc = "gate"
    /\ LET g == CanCreateRobotSession(procs[r].snap, ConcAccount, ConcShop,
                                      "auto_bargain", procs[r].window,
                                      procs[r].seen, procs[r].clock)
           go == g.raised = "" /\ g.available
       IN  /\ sessions' = GateWrite(sessions, g, procs[r].seen)
           /\ procs' = [procs EXCEPT
                 ![r].pc = IF go THEN "create_select" ELSE "done",
                 ![r].error_code = IF go THEN "" ELSE "CREATE_FAILED",
                 ![r].txn = go /\ ~g.commit,
                 ![r].snap = IF go /\ ~g.commit THEN @ ELSE <<>>,
                 ![r].seen = NoSession, ![r].clock = 0]
    /\ UNCHANGED <<messages, tasks, queues, now, ret, published, popped>>

\* create_session_task step 3: the query of the gate call that
\* create_robot_session makes (line 140): answered from the rows the first
\* gate call read unless that call committed, and the datetime.now() of line 85
create_session_task_create_select(r) ==
    /\ procs[r].pc = "create_select"
    /\ LET rows == SnapshotRows(procs[r], sessions) IN
       \E act \in FindActiveSession(rows, ConcAccount, ConcShop) :
          procs' = [procs EXCEPT ![r].pc = "create", ![r].txn = TRUE,
                                 ![r].snap = rows, ![r].seen = act,
                                 ![r].clock = now]
    /\ UNCHANGED <<sessions, messages, tasks, queues, now, ret, published, popped>>

\* create_session_task step 4: create_robot_session from the decision of its
\* gate call, with the UPDATE and COMMIT of that call, up to the SessionInfo it
\* builds.  The constructor raising, the request ends with CREATE_FAILED
\* before create_session is called.
create_session_task_create(r) ==
    /\ procs[r].pc = "create"
    /\ LET g == CanCreateRobotSession(procs[r].snap, ConcAccount, ConcShop,
                                      "auto_bargain", procs[r].window,
                                      procs[r].seen, procs[r].clock)
       IN  /\ sessions' = GateWrite(sessions, g, procs[r].seen)
           /\ IF g.raised # "" THEN TRUE
              ELSE \/ ~g.available
                   \/ Raised(RobotSessionInfo(ConcAccount, ConcShop,
                                              "auto_bargain", procs[r].clock))
           /\ procs' = [procs EXCEPT ![r].pc = "done",
                                     ![r].error_code = "CREATE_FAILED",
                                     ![r].txn = FALSE, ![r].snap = <<>>,
                                     ![r].seen = NoSession, ![r].clock = 0]
    /\ UNCHANGED <<messages, tasks, queues, now, ret, published, popped>>

\* _preprocess_messages: the query for stored message ids
process_message_batch_preprocess(r) ==
    /\ procs[r].pc = "preprocess"
    /\ procs' = [procs EXCEPT ![r].pc = "decide",
                              ![r].processed = PreprocessMessages(messages, procs[r].msgs)]
    /\ UNCHANGED <<sessions, messages, tasks, queues, now, ret, published, popped>>

\* the call of should_create_new_session in process_message_batch and, on
\* create-new, the SessionInfo built next.  The query or the constructor
\* raising, the request ends with an error before create_session is called;
\* nothing has been committed when get_db closes the request's store session.
process_message_batch_decide(r) ==
    /\ procs[r].pc = "decide"
    /\ \E q \in ListKeyQueryOutcomes(Len(procs[r].processed)) :
          IF q = "raise" THEN
              procs' = [procs EXCEPT ![r].pc = "done", ![r].error_code = "ERROR"]
          ELSE
              LET d == ShouldCreateNewSession(sessions, KeyOfList(procs[r].processed),
                                              DeciderDefaultWindow, NoSession, now)
              IN  /\ d.create
                  /\ Raised(HumanSessionInfo(ConcAccount, ConcShop))
                  /\ procs' = [procs EXCEPT ![r].pc = "done",
                                            ![r].error_code = "ERROR"]
    /\ UNCHANGED <<sessions, messages, tasks, queues, now, ret, published, popped>>

\* complete_session_task step 1: the query of its update_task_status call
\* (lines 176-183), the first of the request's transaction, and the
\* datetime.now() of line 192; without a task the request ends with False
complete_session_task_task_select(r) ==
    /\ procs[r].pc = "task_select"
    /\ LET k == TaskOfSession(tasks, procs[r].session_id) IN
       procs' = [procs EXCEPT
           ![r].pc = IF k = 0 THEN "done" ELSE "task",
           ![r].task = IF k = 0 THEN NoTaskRow
                       ELSE [k |-> k, status |-> tasks[k].status,
                             finished_at |-> tasks[k].finished_at],
           ![r].clock = IF k = 0 THEN 0 ELSE now]
    /\ UNCHANGED <<sessions, messages, tasks, queues, now, ret, published, popped>>

\* the UPDATE update_task_status sends for the task row it read: task_status
\* where the new status differs from the one read, and, for a finished task,
\* task_finished_at where the time assigned differs from the one read
TaskWrite(ts, row, status, clock) ==
    [ts EXCEPT ![row.k].status = IF row.status # status THEN status ELSE @,
               ![row.k].finished_at =
                   IF status = 1 /\ row.finished_at # clock THEN clock ELSE @]

\* complete_session_task step 2: the UPDATE and COMMIT of update_task_status
\* (line 194), with the status and the finish time it assigned after its
\* query
complete_session_task_task(r) ==
    /\ procs[r].pc = "task"
    /\ tasks' = TaskWrite(tasks, procs[r].task,
                          IF procs[r].outcome THEN 1 ELSE 2, procs[r].clock)
    /\ procs' = [procs EXCEPT ![r].pc = "session_select", ![r].task = NoTaskRow,
                              ![r].clock = 0]
    /\ UNCHANGED <<sessions, messages, queues, now, ret, published, popped>>

\* complete_session_task step 3: the query for the session (lines 227-229),
\* the first of a new transaction, and the datetime.now() of line 238
complete_session_task_session_select(r) ==
    /\ procs[r].pc = "session_select"
    /\ procs' = [procs EXCEPT ![r].pc = "session", ![r].snap = sessions,
                              ![r].seen = GetSession(sessions, procs[r].session_id),
                              ![r].clock = now]
    /\ UNCHANGED <<sessions, messages, tasks, queues, now, ret, published, popped>>

\* the UPDATE complete_session_task sends for the session row `act` it read
\* in `rows`: state and last_activity, each where the value assigned differs
\* from the one read
SessionWrite(ss, act, rows, success, clock) ==
    IF act = NoSession THEN ss
    ELSE LET state == IF success THEN "active" ELSE "cancelled" IN
         [ss EXCEPT ![act].state = IF rows[act].state # state THEN state ELSE @,
                    ![act].last_activity =
                        IF rows[act].last_activity # clock THEN clock ELSE @]

\* complete_session_task step 4: the UPDATE and COMMIT (line 239) of the state
\* and the last_activity assigned after the query, where the session was
\* found; the request answers True
complete_session_task_session(r) ==
    /\ procs[r].pc = "session"
    /\ sessions' = SessionWrite(sessions, procs[r].seen, procs[r].snap,
                                procs[r].outcome, procs[r].clock)
    /\ procs' = [procs EXCEPT ![r].pc = "done", ![r].success = TRUE,
                              ![r].snap = <<>>, ![r].seen = NoSession,
                              ![r].clock = 0]
    /\ UNCHANGED <<messages, tasks, queues, now, ret, published, popped>>

NextConc ==
    /\ UNCHANGED transfers
    /\ UNCHANGED calls
    /\ \/ Tick
       \/ \E r \in Requests :
             \/ \E w \in Windows : create_session_task_begin(r, w)
             \/ \E msgs \in ConcBatches : process_message_batch_begin(r, msgs)
             \/ \E sid \in SessionIdInputs, success \in BOOLEAN :
                   complete_session_task_begin(r, sid, success)
             \/ create_session_task_gate_select(r)
             \/ create_session_task_gate(r)
             \/ create_session_task_create_select(r)
             \/ create_session_task_create(r)
             \/ process_message_batch_preprocess(r)
             \/ process_message_batch_decide(r)
             \/ complete_session_task_task_select(r)
             \/ complete_session_task_task(r)
             \/ complete_session_task_session_select(r)
             \/ complete_session_task_session(r)
    /\ stored' = sessions'

SpecConc == InitConc /\ [][NextConc]_vars

-----------------------------------------------------------------------------
(* Claims about the queue protocol. *)

\* the number in a level's name
LevelNumber(l) ==
    CASE l = "level1" -> 1 [] l = "level2" -> 2 [] l = "level3" -> 3
      [] l = "level4" -> 4 [] l = "level5" -> 5

\* the position in `published` of the id a queue entry holds
PubIndex(entry) == CHOOSE k \in DOMAIN published : ToString(published[k].id) = entry

\* A at level3, then B at level1, then C at level3 (ids 1, 2, 3)
ScenarioABC ==
    <<[level |-> "level3", id |-> 1], [level |-> "level1", id |-> 2],
      [level |-> "level3", id |-> 3]>>

PoppedIds == [i \in DOMAIN popped |-> popped[i].id]

\* in the scenario, the next id returned is the next one of `expected`
ScenarioReturns(expected) ==
    (/\ published = ScenarioABC
     /\ Len(popped) < 3
     /\ PoppedIds = SubSeq(expected, 1, Len(popped))
     /\ popped' # popped)
    => popped'[Len(popped')].id = expected[Len(popped')]

\* C6: level1 is the highest priority, so every id returned comes from the
\* non-empty level with the smallest number, and after A at level3, B at
\* level1, C at level3 the dequeues return B, A, C.
C6_Level1First ==
    [][/\ popped' # popped =>
            \A h \in Levels :
                LevelNumber(h) < LevelNumber(popped'[Len(popped')].level)
                    => queues[h] = <<>>
       /\ ScenarioReturns(<<"2", "1", "3">>)]_vars

\* C7: no id is returned from level k while, at the moment of that pop, a
\* level of higher priority (a smaller number) is non-empty.
C7_NoLowerWhileHigher ==
    [][popped' # popped =>
            \A h \in Levels :
                LevelNumber(h) < LevelNumber(popped'[Len(popped')].level)
                    => queues[h] = <<>>]_vars

\* C8: within one level the queue is FIFO: of two ids pushed to the same level
\* the one pushed earlier is returned first, so ids of one level are returned
\* in push order and no id still queued was pushed before a returned one.
C8_FifoWithinLevel ==
    /\ \A i, j \in DOMAIN popped :
          (i < j /\ popped[i].level = popped[j].level)
              => PubIndex(popped[i].id) < PubIndex(popped[j].id)
    /\ \A i \in DOMAIN popped : \A k \in DOMAIN queues[popped[i].level] :
          PubIndex(popped[i].id) < PubIndex(queues[popped[i].level][k])

\* C8 witness: two ids of the same level have both been returned
C8_Witness ==
    \E i, j \in DOMAIN popped : i < j /\ popped[i].level = popped[j].level

-----------------------------------------------------------------------------
(* Claims about the live session of a pair. *)

\* C2: in every state reached by the public operations called one at a time
\* in any order, each (account, shop) pair has at most one session in state
\* ACTIVE or TRANSFERRED.
C2_AtMostOneLiveUnderAllOperations ==
    \A a \in Accounts, s \in ShopInputs :
        \A i, j \in LiveIds(sessions, a, s) : i = j

\* the rows of table messages attached to session sid
MessagesOf(ms, sid) == {k \in DOMAIN ms : ms[k].session_id = sid}

\* C9: a session in COMPLETED, CANCELLED or TIMEOUT never changes state again,
\* and no message is attached to it: its message count and its stored
\* messages stay as they are.
C9_TerminalSessionsFrozen ==
    [][\A i \in DOMAIN sessions :
          sessions[i].state \in TerminalStates =>
              /\ sessions'[i].state = sessions[i].state
              /\ sessions'[i].message_count = sessions[i].message_count
              /\ MessagesOf(messages', i) = MessagesOf(messages, i)]_vars

\* C10: when a batch of new message ids was counted as processed (n, 0) and
\* the next call submits the same ids for the same pair, that call counts them
\* as skipped (0, n) and exactly one row is stored for each id; with one id:
\* (1, 0), then (0, 1), and one row.
C10_SecondSubmissionSkipped ==
    [][(/\ \E msgs \in Batches, a \in Accounts, s \in ShopInputs, w \in Windows :
              process_message_batch(msgs, a, s, w)
        /\ ret.op = "process_message_batch"
        /\ Len(ret.message_ids) >= 1
        /\ \A i, j \in DOMAIN ret.message_ids :
              ret.message_ids[i] = ret.message_ids[j] => i = j
        /\ ret.processed = Len(ret.message_ids)
        /\ ret.skipped = 0
        /\ ret'.message_ids = ret.message_ids
        /\ ret'.account = ret.account
        /\ ret'.shop = ret.shop)
       => /\ ret'.processed = 0
          /\ ret'.skipped = Len(ret.message_ids)
          /\ \A i \in DOMAIN ret.message_ids :
                Cardinality({k \in DOMAIN messages' :
                    messages'[k].message_id = ret.message_ids[i]}) = 1]_vars

\* C5: when the create_session_task requests for one pair, run together on a
\* store with no live session of the pair, have all returned, exactly one of
\* them reported success.  (A creation writes no state but TIMEOUT, so a
\* store that ends with no live row and no TIMEOUT row had no live row while
\* the requests ran.)
C5_ExactlyOneCreationSucceeds ==
    (/\ LiveIds(sessions, ConcAccount, ConcShop) = {}
     /\ \A i \in DOMAIN sessions : sessions[i].state # "timeout"
     /\ \A r \in Requests : procs[r].kind = "task" /\ procs[r].pc = "done")
    => Cardinality({r \in Requests : procs[r].success}) = 1

-----------------------------------------------------------------------------
(* Claims about the decider, the batches and the hand-off. *)

\* the pair (a, s) has exactly one live session, and it is `old`
OnlyLive(a, s, old) == s # "" /\ LiveIds(sessions, a, s) = {old}

\* C11: when the one live session of a pair is older than the window, the
\* decider answers create-new and the session goes to TIMEOUT, and a batch
\* with that window reports an active session id that is a session other than
\* the old one; when it is within the window the decider answers join with
\* the old session's id.
C11_TimeoutSupersession ==
    [][\A a \in Accounts, s \in ShopNames, w \in Windows, old \in DOMAIN sessions :
          OnlyLive(a, s, old) =>
              /\ should_create_new_session(a, s, w) =>
                    IF now - sessions[old].last_activity > w
                    THEN ret'.create /\ sessions'[old].state = "timeout"
                    ELSE ~ret'.create /\ ret'.existing = old
              /\ (/\ now - sessions[old].last_activity > w
                  /\ \E msgs \in Batches : process_message_batch(msgs, a, s, w))
                 => ret'.active_session_id \notin {NoSession, old}]_vars

\* C12: for an ACTIVE robot session, switch_session_control(id, human) returns
\* true and leaves it TRANSFERRED and created by human, and a
\* switch_session_control(id, robot) right after returns true and leaves it
\* ACTIVE and created by robot again.
C12_HandOffRoundTrip ==
    [][\A sid \in DOMAIN sessions :
          /\ (/\ sessions[sid].state = "active"
              /\ sessions[sid].created_by = "robot"
              /\ switch_session_control(sid, "human"))
             => /\ ret'.ok
                /\ sessions'[sid].state = "transferred"
                /\ sessions'[sid].created_by = "human"
          /\ (/\ ret.op = "switch_session_control"
              /\ ret.session_id = sid
              /\ ret.new_owner = "human"
              /\ ret.ok
              /\ switch_session_control(sid, "robot"))
             => /\ ret'.ok
                /\ sessions'[sid].state = "active"
                /\ sessions'[sid].created_by = "robot"]_vars

\* C12 witness: a robot session that was handed to a human has been switched
\* back to the robot
C12_Witness ==
    /\ ret.op = "switch_session_control"
    /\ ret.new_owner = "robot"
    /\ ret.ok
    /\ IsRobotTask(sessions[ret.session_id].task_type)
    /\ sessions[ret.session_id].transferred_at # -1
    /\ sessions[ret.session_id].state = "active"
    /\ sessions[ret.session_id].created_by = "robot"

\* C13: every switch_session_control call that returns true appends exactly
\* one row for that session to the transfer records, and the rows already
\* there stay as they are.
C13_HandOffAppendsTransferRecord ==
    [][\A sid \in SessionIdInputs, new_owner \in {"human", "robot"} :
          (switch_session_control(sid, new_owner) /\ ret'.ok) =>
              /\ Len(transfers') = Len(transfers) + 1
              /\ transfers'[Len(transfers')].session_id = sid
              /\ SubSeq(transfers', 1, Len(transfers)) = transfers]_vars

\* C14: a batch with n >= 1 messages not yet stored, for a pair with no live
\* session, creates exactly one session (TRANSFERRED, created by human,
\* manual_urgent, priority 1), attaches the n messages to it (message count
\* n, n stored rows), reports its id as the active session and no error.
C14_NewConversation ==
    [][\A msgs \in Batches, a \in Accounts, s \in ShopNames, w \in Windows :
          (/\ process_message_batch(msgs, a, s, w)
           /\ LiveIds(sessions, a, s) = {}
           /\ Len(PreprocessMessages(messages, msgs)) >= 1)
          => /\ ret'.errors = 0
             /\ Len(sessions') = Len(sessions) + 1
             /\ ret'.active_session_id = Len(sessions')
             /\ sessions'[Len(sessions')].state = "transferred"
             /\ sessions'[Len(sessions')].created_by = "human"
             /\ sessions'[Len(sessions')].task_type = "manual_urgent"
             /\ sessions'[Len(sessions')].priority = 1
             /\ sessions'[Len(sessions')].message_count
                    = Len(PreprocessMessages(messages, msgs))
             /\ Cardinality(MessagesOf(messages', Len(sessions')))
                    = Len(PreprocessMessages(messages, msgs))]_vars

\* the one live session of (a, s) is `old`, an ACTIVE robot session whose
\* inactivity is within the window w
FreshRobotSession(a, s, w, old) ==
    /\ OnlyLive(a, s, old)
    /\ sessions[old].state = "active"
    /\ sessions[old].created_by = "robot"
    /\ IsRobotTask(sessions[old].task_type)
    /\ now - sessions[old].last_activity <= w

\* C15: when a batch with processed messages arrives for a pair whose live
\* session is a fresh ACTIVE robot session (the batch joins it), the session
\* ends TRANSFERRED and created by human if and only if some processed message
\* has source account, a content not starting with 'hi' and a sender in the
\* nickname list; otherwise it stays ACTIVE and created by robot.
C15_InterventionDecidesHandOff ==
    [][\A msgs \in Batches, a \in Accounts, s \in ShopNames, w \in Windows,
          old \in DOMAIN sessions :
          (/\ FreshRobotSession(a, s, w, old)
           /\ Len(PreprocessMessages(messages, msgs)) >= 1
           /\ process_message_batch(msgs, a, s, w))
          => IF CheckHumanIntervention(PreprocessMessages(messages, msgs))
             THEN /\ sessions'[old].state = "transferred"
                  /\ sessions'[old].created_by = "human"
             ELSE /\ sessions'[old].state = "active"
                  /\ sessions'[old].created_by = "robot"]_vars

\* C16: a batch for a pair whose live session is within the window creates no
\* session, reports that session as the active session and attaches every
\* processed message to it, so the session's message count grows by the
\* number of processed messages of each batch.
C16_JoinLiveSession ==
    [][\A msgs \in Batches, a \in Accounts, s \in ShopNames, w \in Windows,
          old \in DOMAIN sessions :
          (/\ OnlyLive(a, s, old)
           /\ now - sessions[old].last_activity <= w
           /\ process_message_batch(msgs, a, s, w))
          => /\ Len(sessions') = Len(sessions)
             /\ ret'.active_session_id = old
             /\ sessions'[old].message_count = sessions[old].message_count
                    + Len(PreprocessMessages(messages, msgs))
             /\ Cardinality(MessagesOf(messages', old))
                    = Cardinality(MessagesOf(messages, old))
                    + Len(PreprocessMessages(messages, msgs))]_vars

-----------------------------------------------------------------------------
(* Claims about the gate and the creation of robot sessions. *)

\* C17: when the live session of a pair is TRANSFERRED, the gate answers
\* unavailable with that session's id for every window, however long the
\* session has been inactive, and leaves the session's state as it is.
C17_HumanSessionNeverReclaimed ==
    [][\A a \in Accounts, s \in ShopNames, t \in TaskTypeInputs, w \in Windows,
          old \in DOMAIN sessions :
          (/\ ret'.op = "can_create_robot_session"
           /\ OnlyLive(a, s, old)
           /\ sessions[old].state = "transferred"
           /\ IsRobotTask(t)
           /\ can_create_robot_session(a, s, t, w))
          => /\ ret'.out.raised = ""
             /\ ~ret'.out.available
             /\ ret'.out.conflict = old
             /\ sessions' = sessions]_vars

\* C18: when the live session of a pair is an ACTIVE automation session, the
\* gate answers available exactly when now - last_activity exceeds the
\* window, and then marks the session TIMEOUT; when the session is fresh the
\* gate answers unavailable with its id and changes nothing, and
\* create_robot_session fails with UNAVAILABLE and that id and creates nothing.
C18_RobotSessionGate ==
    [][\A a \in Accounts, s \in ShopNames, t \in TaskTypeInputs, w \in Windows,
          old \in DOMAIN sessions :
          (/\ ret'.op \in {"can_create_robot_session", "create_robot_session"}
           /\ OnlyLive(a, s, old)
           /\ sessions[old].state = "active"
           /\ IsRobotTask(sessions[old].task_type)
           /\ IsRobotTask(t))
          => /\ (ret'.op = "can_create_robot_session"
                   /\ can_create_robot_session(a, s, t, w)) =>
                   IF now - sessions[old].last_activity > w
                   THEN /\ ret'.out.raised = ""
                        /\ ret'.out.available
                        /\ sessions' = [sessions EXCEPT ![old].state = "timeout"]
                   ELSE /\ ret'.out.raised = ""
                        /\ ~ret'.out.available
                        /\ ret'.out.conflict = old
                        /\ sessions' = sessions
             /\ (/\ ret'.op = "create_robot_session"
                 /\ now - sessions[old].last_activity <= w
                 /\ create_robot_session(a, s, t, w))
                => /\ ret'.out.raised = ""
                   /\ ~ret'.out.success
                   /\ ret'.out.error_code = "UNAVAILABLE"
                   /\ ret'.out.conflict = old
                   /\ sessions' = sessions]_vars

\* C19: a gate, create_robot_session or create_session_task call with an empty
\* shop name or a task type that is not an automated one is refused (the gate
\* answers unavailable, the two creations answer failure) and leaves the store
\* and the queues as they are, whatever sessions exist.
C19_InvalidRequestChangesNothing ==
    [][\A a \in Accounts, s \in ShopInputs, t \in TaskRequestTypes, w \in Windows :
          (s = "" \/ ~IsRobotTask(t)) =>
              /\ (ret'.op = "can_create_robot_session"
                    /\ can_create_robot_session(a, s, t, w)) =>
                    /\ ret'.out.raised = ""
                    /\ ~ret'.out.available
                    /\ UNCHANGED <<sessions, messages, tasks, queues>>
              /\ (ret'.op = "create_robot_session"
                    /\ create_robot_session(a, s, t, w)) =>
                    /\ ret'.out.raised = ""
                    /\ ~ret'.out.success
                    /\ UNCHANGED <<sessions, messages, tasks, queues>>
              /\ \A level \in LevelInputs :
                    (ret'.op = "create_session_task"
                       /\ create_session_task(t, a, s, level, w)) =>
                        /\ ~ret'.success
                        /\ UNCHANGED <<sessions, messages, tasks, queues>>]_vars

-----------------------------------------------------------------------------
(* Claims about tasks and about the operations that target one session. *)

\* C21: complete_session_task(sid, success) for a session that owns a task
\* returns true, leaves the task done (1) when success is true and skipped
\* (2) when it is false, and leaves the session ACTIVE on success and
\* CANCELLED on failure.
C21_CompletionResolvesTaskAndSession ==
    [][\A sid \in SessionIdInputs, success \in BOOLEAN :
          (/\ TaskOfSession(tasks, sid) # 0
           /\ ret'.op = "complete_session_task"
           /\ complete_session_task(sid, success))
          => /\ ret'.ok
             /\ tasks'[TaskOfSession(tasks, sid)].status = (IF success THEN 1 ELSE 2)
             /\ sid \in DOMAIN sessions'
             /\ sessions'[sid].state = (IF success THEN "active" ELSE "cancelled")]_vars

\* C21 witness: a failed task has just been completed: the task is skipped and
\* its session CANCELLED
C21_Witness ==
    /\ ret.op = "complete_session_task"
    /\ ret.ok
    /\ ~ret.success
    /\ TaskOfSession(tasks, ret.session_id) # 0
    /\ tasks[TaskOfSession(tasks, ret.session_id)].status = 2
    /\ sessions[ret.session_id].state = "cancelled"

\* C22: a task that is done or skipped keeps its status and its finish time
\* in every later step.
C22_ResolvedTaskIsFinal ==
    [][\A i \in DOMAIN tasks :
          tasks[i].status \in {1, 2} =>
              /\ tasks'[i].status = tasks[i].status
              /\ tasks'[i].finished_at = tasks[i].finished_at]_vars

\* C23: add_message_to_session and switch_session_control for a session id
\* that does not exist, and complete_session_task for a session that owns no
\* task, return false and leave sessions, messages, tasks and queues as they
\* are.
C23_MissingTargetChangesNothing ==
    [][\A sid \in SessionIdInputs :
          /\ GetSession(sessions, sid) = NoSession =>
                /\ \A m \in MessageCatalogue :
                      (ret'.op = "add_message_to_session"
                         /\ add_message_to_session(sid, m)) =>
                          /\ ~ret'.ok
                          /\ UNCHANGED <<sessions, messages, tasks, queues>>
                /\ \A new_owner \in {"human", "robot"} :
                      (ret'.op = "switch_session_control"
                         /\ switch_session_control(sid, new_owner)) =>
                          /\ ~ret'.ok
                          /\ UNCHANGED <<sessions, messages, tasks, queues>>
          /\ TaskOfSession(tasks, sid) = 0 =>
                \A success \in BOOLEAN :
                    (ret'.op = "complete_session_task"
                       /\ complete_session_task(sid, success)) =>
                        /\ ~ret'.ok
                        /\ UNCHANGED <<sessions, messages, tasks, queues>>]_vars

\* C23 witness: complete_session_task has just returned false for a session
\* that exists and owns no task, while another session does own one
C23_Witness ==
    /\ ret.op = "complete_session_task"
    /\ ~ret.ok
    /\ ret.session_id \in DOMAIN sessions
    /\ TaskOfSession(tasks, ret.session_id) = 0
    /\ tasks # <<>>

\* C24: the response to get_send_info_by_task_id for a task id that is not
\* stored is a failure, never a success.
C24_UnknownTaskIsNotFound ==
    (ret.op = "get_send_info_by_task_id" /\ ~ret.stored) => ~ret.success

\* C25: when the resolver has no URL for a stored task (one with an external
\* task id), the response is a failure, sessions, messages, tasks and queues
\* stay as they are (a not-started task stays not-started), and the task can
\* still be asked for by the same id.
C25_ResolverFailureLeavesTask ==
    [][\A tid \in DOMAIN tasks, ext \in ExternalTaskIds \ {""} :
          (ret'.op = "get_send_info_by_task_id"
             /\ get_send_info_by_task_id(tid, ext, "")) =>
              /\ ~ret'.success
              /\ UNCHANGED <<sessions, messages, tasks, queues>>
              /\ tid \in DOMAIN tasks'
              /\ tasks[tid].status = 0 => tasks'[tid].status = 0]_vars

\* C25 witness: the dispatch info of a stored, not-started task has just been
\* asked for while the resolver had no URL, and the answer was a failure
C25_Witness ==
    /\ ret.op = "get_send_info_by_task_id"
    /\ ret.stored
    /\ ret.external_task_id # ""
    /\ ret.resolver_url = ""
    /\ ~ret.success
    /\ tasks[ret.task_id].status = 0

\* C26: no result carries success together with error content: a
\* create_session_task result is a success with a session id and no error
\* code or a failure with an error code and no session id, and the response
\* to a batch whose result lists errors is not a success.
C26_SuccessExcludesErrors ==
    /\ ret.op = "create_session_task" =>
          IF ret.success
          THEN ret.session_id # NoSession /\ ret.error_code = ""
          ELSE ret.session_id = NoSession /\ ret.error_code # ""
    /\ (ret.op = "process_message_batch" /\ ret.errors > 0) =>
          ~BatchResponse(ret).success

-----------------------------------------------------------------------------
(* Claims about stored messages. *)

\* C28: add_message_to_session for a session that exists returns true, stores
\* one row for the message, raises the session's message count by one, sets
\* its last activity to the message's sent-at value, and leaves its state as
\* it was except that PENDING becomes ACTIVE.
C28_MessageJoinsSession ==
    [][\A sid \in DOMAIN sessions, m \in MessageCatalogue :
          (ret'.op = "add_message_to_session" /\ add_message_to_session(sid, m)) =>
              /\ ret'.ok
              /\ messages' = Append(messages,
                                    [message_id |-> m.message_id, session_id |-> sid])
              /\ sessions'[sid].message_count = sessions[sid].message_count + 1
              /\ sessions'[sid].last_activity = m.sent_at
              /\ sessions'[sid].state = (IF sessions[sid].state = "pending"
                                         THEN "active" ELSE sessions[sid].state)
              /\ \A o \in DOMAIN sessions \ {sid} : sessions'[o] = sessions[o]]_vars

\* C28 witness: a message sent before the current time has just been added to
\* the session of a task that has not started; the session, PENDING before,
\* is ACTIVE with one message and the message's sent-at as its last activity
C28_Witness ==
    /\ ret.op = "add_message_to_session"
    /\ ret.ok
    /\ TaskOfSession(tasks, ret.session_id) # 0
    /\ tasks[TaskOfSession(tasks, ret.session_id)].status = 0
    /\ sessions[ret.session_id].state = "active"
    /\ sessions[ret.session_id].message_count = 1
    /\ sessions[ret.session_id].last_activity < now

-----------------------------------------------------------------------------
(* Claims about the frame of create_session. *)

\* C29: create_session for the pair (a, s) appends one session with the given
\* initial state, turns the sessions of (a, s) that were ACTIVE or TRANSFERRED
\* into COMPLETED, and leaves every other session (of another pair, or of
\* (a, s) and PENDING or terminal) as it was.
C29_CreateSessionFrame ==
    [][\A a \in Accounts, s \in FrameShops, la \in {-1, 0} :
          \A info \in SessionInfos(a, s, la) :
              (ret'.op = "create_session" /\ create_session(info)) =>
                  /\ Len(sessions') = Len(sessions) + 1
                  /\ sessions'[Len(sessions')].account = a
                  /\ sessions'[Len(sessions')].shop = s
                  /\ sessions'[Len(sessions')].state = info.state
                  /\ \A i \in DOMAIN sessions :
                        IF /\ sessions[i].account = a
                           /\ sessions[i].shop = s
                           /\ sessions[i].state \in {"active", "transferred"}
                        THEN sessions'[i].state = "completed"
                        ELSE sessions'[i] = sessions[i]]_vars

-----------------------------------------------------------------------------
(* Claims about notifications. *)

\* C30: a batch notifies exactly once when it opens a new conversation (the
\* pair has no live session, or a stale one), when it joins a fresh
\* TRANSFERRED session, and when it hands a fresh ACTIVE robot session to
\* human on a positive intervention signal; it does not notify when it joins
\* a fresh ACTIVE robot session with a negative signal.
C30_NotificationsPerBatch ==
    [][\A msgs \in Batches, a \in Accounts, s \in ShopNames, w \in Windows :
          (ret'.op = "process_message_batch" /\ process_message_batch(msgs, a, s, w)) =>
              /\ LiveIds(sessions, a, s) = {} => ret'.notifications = 1
              /\ \A old \in DOMAIN sessions :
                    (OnlyLive(a, s, old) /\ now - sessions[old].last_activity > w)
                        => ret'.notifications = 1
              /\ \A old \in DOMAIN sessions :
                    (/\ OnlyLive(a, s, old)
                     /\ sessions[old].state = "transferred"
                     /\ now - sessions[old].last_activity <= w)
                        => ret'.notifications = 1
              /\ \A old \in DOMAIN sessions :
                    FreshRobotSession(a, s, w, old) =>
                        ret'.notifications =
                            (IF CheckHumanIntervention(PreprocessMessages(messages, msgs))
                             THEN 1 ELSE 0)]_vars

-----------------------------------------------------------------------------
(* Claims about failures. *)

\* the message ids of a batch, in its order
MessageIds(msgs) == [i \in DOMAIN msgs |-> msgs[i].message_id]

\* C32: a batch always returns a result: one with at most one error, exactly
\* one when a step of it failed (no session is reported then), and with the
\* processed and skipped counters of its preprocessing whether or not a later
\* step failed.
C32_BatchFailureIsIsolated ==
    [][ret'.op = "process_message_batch" =>
       \A msgs \in Batches, a \in Accounts, s \in ShopNames, w \in Windows :
          (ret'.message_ids = MessageIds(msgs)
             /\ process_message_batch(msgs, a, s, w)) =>
              /\ ret'.errors \in {0, 1}
              /\ ret'.active_session_id = NoSession => ret'.errors = 1
              /\ ret'.processed = Len(PreprocessMessages(messages, msgs))
              /\ ret'.skipped = Len(msgs) - Len(PreprocessMessages(messages, msgs))]_vars

\* C32 witness: a batch has just failed after its preprocessing had counted a
\* processed and a skipped message
C32_Witness ==
    /\ ret.op = "process_message_batch"
    /\ ret.errors = 1
    /\ ret.processed >= 1
    /\ ret.skipped >= 1

-----------------------------------------------------------------------------
(* Claims about the columns of a session. *)

\* C33: the message count of every session opened by a batch or by
\* create_session_task is the number of message rows stored with its id.
C33_CountMatchesRows ==
    \A sid \in DOMAIN sessions :
        sessions[sid].message_count = Cardinality(MessagesOf(messages, sid))

\* C33 witness: a robot session with a task and a conversation opened for a
\* human hold one message each
C33_Witness ==
    \E p \in DOMAIN sessions, q \in DOMAIN sessions :
        /\ TaskOfSession(tasks, p) # 0
        /\ sessions[p].message_count = 1
        /\ sessions[q].task_type = "manual_urgent"
        /\ sessions[q].message_count = 1

\* C34: no step leaves the last activity of a session smaller than it was.
C34_LastActivityNeverDecreases ==
    [][\A sid \in DOMAIN sessions :
          sessions'[sid].last_activity >= sessions[sid].last_activity]_vars

\* C35: a batch of messages that are all stored already, for a pair whose one
\* live session is within the window, opens no session and leaves the state,
\* the owner and the message count of every session, and the stored
\* messages, as they were.
C35_RedeliveryIsNoOp ==
    [][ret'.op = "process_message_batch" =>
       \A msgs \in Batches, a \in Accounts, s \in ShopNames, w \in Windows,
          old \in DOMAIN sessions :
          (/\ Len(msgs) >= 1
           /\ ret'.message_ids = MessageIds(msgs)
           /\ Len(PreprocessMessages(messages, msgs)) = 0
           /\ OnlyLive(a, s, old)
           /\ now - sessions[old].last_activity <= w
           /\ process_message_batch(msgs, a, s, w))
          => /\ Len(sessions') = Len(sessions)
             /\ \A i \in DOMAIN sessions :
                   /\ sessions'[i].state = sessions[i].state
                   /\ sessions'[i].created_by = sessions[i].created_by
                   /\ sessions'[i].message_count = sessions[i].message_count
             /\ messages' = messages]_vars

\* C35 witness: a batch whose one message is stored already has just been
\* delivered for a pair whose one live session holds a message
C35_Witness ==
    /\ ret.op = "process_message_batch"
    /\ Len(ret.message_ids) >= 1
    /\ ret.processed = 0
    /\ ret.skipped = Len(ret.message_ids)
    /\ \E old \in DOMAIN sessions :
          /\ OnlyLive(ret.account, ret.shop, old)
          /\ sessions[old].message_count >= 1
          /\ now - sessions[old].last_activity <= ConcWindow

-----------------------------------------------------------------------------
(* Claims about failed creations and about ownership. *)

\* C37: a create_session_task call that reports failure leaves the sessions
\* and the tasks as they were before the call.
C37_FailedTaskCreationLeavesNothing ==
    [][\A t \in TaskRequestTypes, a \in Accounts, s \in ShopInputs,
          level \in LevelInputs, w \in Windows :
          (ret'.op = "create_session_task" /\ ~ret'.success
             /\ create_session_task(t, a, s, level, w)) =>
              /\ sessions' = sessions
              /\ tasks' = tasks]_vars

\* C38: no create_robot_session or create_session_task call moves a session
\* that is TRANSFERRED to COMPLETED or TIMEOUT.
C38_RobotNeverEndsHumanSession ==
    [][(ret'.op \in {"create_robot_session", "create_session_task"}) =>
          \A i \in DOMAIN sessions :
              sessions[i].state = "transferred" =>
                  sessions'[i].state \notin {"completed", "timeout"}]_vars

\* C38 witness: create_session_task has just returned for a pair whose live
\* session is TRANSFERRED and has been inactive for longer than the empty
\* window
C38_Witness ==
    /\ ret.op = "create_session_task"
    /\ \E old \in DOMAIN sessions :
          /\ OnlyLive(ret.account, ret.shop, old)
          /\ sessions[old].state = "transferred"
          /\ now - sessions[old].last_activity > 0

\* C39: of the sessions created by message batches and task requests, a
\* TRANSFERRED one is owned by a human and an ACTIVE or PENDING one by the
\* robot.
C39_StateMatchesOwner ==
    \A i \in DOMAIN sessions :
        /\ sessions[i].state = "transferred" => sessions[i].created_by = "human"
        /\ sessions[i].state \in {"active", "pending"} => sessions[i].created_by = "robot"

=============================================================================
